---------------------------- MODULE Spec2Model ----------------------------
(***************************************************************************)
(* A model of the declarative validation library: the slice iteration     *)
(* engine with ratcheting (EachSliceVal), the frozen / immutable           *)
(* validators, and a field that is updated under an immutable validator.  *)
(***************************************************************************)
EXTENDS Integers, Sequences, FiniteSets, TLC

(***************************************************************************)
(* Bounds of the model.                                                    *)
(***************************************************************************)
\* longest new / old slice handed to EachSliceVal
MaxLen == 2
\* largest integer held by an int field or value
MaxInt == 1
\* number of distinct heap addresses a pointer field may hold
NumAddr == 2
\* number of updates applied to one field
MaxUpdates == 3
\* longest slice handed to a uniqueness validator
MaxUniqueLen == 3
\* longest name enumerated byte by byte
MaxNameLen == 3
\* longest slice wrapped as a CEL list
MaxElems == 2
\* most matcher pairs of one tag
MaxPairs == 2
\* most validation functions of a chained validator
MaxPayloadFns == 2
\* longest slice handed to sliceVal.Add, as receiver or as argument
MaxAddLen == 2
\* most spare capacity of a backing array
MaxSpare == 1
\* most Add calls on one receiver
MaxAdds == 2
\* longest slice, and largest map, iterated over
MaxIterLen == 2
\* most Next calls on one iterator
MaxNexts == 4

(***************************************************************************)
(* operation.Operation: only its Type is read.                             *)
(***************************************************************************)
OpTypes == {"Create", "Update"}

(***************************************************************************)
(* field.Path: a sequence of segments; a segment is a name (index -1) or   *)
(* an index (name "").                                                     *)
(***************************************************************************)
NewPath(name) == << [name |-> name, index |-> -1] >>

\* fldPath.Index(i), i being the 0-based Go index
Index(path, i) == Append(path, [name |-> "", index |-> i])

FldPaths == {NewPath("test"), NewPath("spec")}

(***************************************************************************)
(* field.Error                                                             *)
(***************************************************************************)
Forbidden(path, detail) ==
    [type |-> "FieldValueForbidden", field |-> path, detail |-> detail]

Invalid(path, detail) ==
    [type |-> "FieldValueInvalid", field |-> path, detail |-> detail]

(***************************************************************************)
(* EachSliceVal over []TestStructWithKey.                                  *)
(***************************************************************************)
Keys == {"a", "b"}

\* TestStructWithKey, without the D field (never read by a compare function
\* other than whole-value equality, for which I plays the same part)
Items == [Key : Keys, I : 0..MaxInt]

RECURSIVE SeqsUpTo(_, _)
SeqsUpTo(S, n) ==
    IF n = 0 THEN {<<>>}
    ELSE LET shorter == SeqsUpTo(S, n - 1)
         IN  shorter \cup {Append(s, x) : s \in {t \in shorter : Len(t) = n - 1}, x \in S}

\* a nil slice and an empty slice are both <<>>: the engine only takes len()
\* of a slice and ranges over it
Slices == SeqsUpTo(Items, MaxLen)

\* CompareFunc[T]: "nil" is the absent function
CompareFuncs == {"nil", "DirectEqual", "KeyEqual"}

\* the call cmp(a, b) of a non-nil CompareFunc
Compare(cmp, a, b) ==
    CASE cmp = "DirectEqual" -> a = b
      [] cmp = "KeyEqual"    -> a.Key = b.Key

\* ValidateFunc[*T]: the validators of the tests
Validators == {"NoErrors", "ExpectNoCalls"}

\* the call validator(ctx, op, path, newVal, oldVal)
Validate(vfn, path, newVal, oldVal) ==
    CASE vfn = "NoErrors"      -> <<>>
      [] vfn = "ExpectNoCalls" -> << Invalid(path, "expected no calls") >>

\* lookup: a pointer to the first element of list that cmp matches with the
\* target, or nil.  A pointer into list is the (1-based) position; nil is 0.
lookup_last(list, target, cmp) ==
    LET hits == {j \in 1..Len(list) : Compare(cmp, list[j], target)}
    IN  IF hits = {} THEN 0 ELSE CHOOSE j \in hits : \A k \in hits : k <= j

lookup(list, target, cmp) ==
    LET hits == {j \in 1..Len(list) : Compare(cmp, list[j], target)}
    IN  IF hits = {} THEN 0 ELSE CHOOSE j \in hits : \A k \in hits : j <= k

OldFor_firstOld(oldS, val, matchFn) ==
    IF matchFn # "nil" /\ Len(oldS) > 0 THEN 1 ELSE 0

\* the old element EachSliceVal pairs with val
OldFor(oldS, val, matchFn) ==
    IF matchFn # "nil" /\ Len(oldS) > 0 THEN lookup(oldS, val, matchFn) ELSE 0

\* the ratcheting test: skip re-validating val, paired with old
Ratchets_noOldCheck(opType, oldS, old, equivFn, val) ==
    opType = "Update" /\ (IF equivFn = "nil" THEN TRUE ELSE old # 0 /\ Compare(equivFn, val, oldS[old]))

Ratchets_anyOp(opType, oldS, old, equivFn, val) ==
    old # 0 /\ (IF equivFn = "nil" THEN TRUE ELSE Compare(equivFn, val, oldS[old]))

Ratchets(opType, oldS, old, equivFn, val) ==
    opType = "Update" /\ old # 0 /\ (IF equivFn = "nil" THEN TRUE ELSE Compare(equivFn, val, oldS[old]))

(***************************************************************************)
(* Go values handed to the frozen / immutable validators.  A value carries *)
(* its static type t.  Pointers, slices and maps carry their nil-ness.     *)
(***************************************************************************)
Strings == {"", "a", "b"}

Ints == 0..MaxInt

IntV(n) == [t |-> "int", n |-> n]

StringV(s) == [t |-> "string", s |-> s]

\* StructComparable {S string; I int}
StructComparableV(s, n) == [t |-> "StructComparable", S |-> s, I |-> n]

\* a *string field of a struct: its address (0 is nil) and the string it
\* points to
NilField == [addr |-> 0, s |-> ""]

PtrFields == {NilField} \cup [addr : 1..NumAddr, s : Strings]

\* ComparableStruct {StringField string; StringPtrField *string}: a struct
\* that satisfies `comparable` and holds a pointer
ComparableStructV(s, p) == [t |-> "ComparableStruct", StringField |-> s, StringPtrField |-> p]

\* a []string: nil, or a (possibly empty) sequence
NilSlice == [nil |-> TRUE, elems |-> <<>>]

SliceData == {NilSlice} \cup [nil : {FALSE}, elems : SeqsUpTo(Strings, 1)]

SliceV(d) == [t |-> "[]string", d |-> d]

\* a map[string]string: nil, or a (possibly empty) set of key/value pairs
NilMap == [nil |-> TRUE, kv |-> {}]

MapData == {NilMap} \cup [nil : {FALSE}, kv : {{}} \cup {{<<"key", v>>} : v \in Strings}]

MapV(d) == [t |-> "map[string]string", d |-> d]

\* StructNonComparable {S string; SS []string}
StructNonComparableV(s, ss) == [t |-> "StructNonComparable", S |-> s, SS |-> ss]

ValueTypes == {"int", "string", "StructComparable", "ComparableStruct",
               "StructNonComparable", "[]string", "map[string]string"}

\* the types T that satisfy `comparable`
ComparableTypes == {"int", "string", "StructComparable", "ComparableStruct"}

PtrTo(T) == "*" \o T

PtrTypes == {PtrTo(T) : T \in {"int", "string", "StructComparable", "ComparableStruct", "StructNonComparable"}}

Types == ValueTypes \cup PtrTypes

Elem(T) ==
    CASE T = "*int"                 -> "int"
      [] T = "*string"              -> "string"
      [] T = "*StructComparable"    -> "StructComparable"
      [] T = "*ComparableStruct"       -> "ComparableStruct"
      [] T = "*StructNonComparable" -> "StructNonComparable"

\* reflect.Kind of a type
Kind(T) ==
    CASE T = "int"                  -> "Int"
      [] T = "string"               -> "String"
      [] T \in {"StructComparable", "ComparableStruct", "StructNonComparable"} -> "Struct"
      [] T = "[]string"             -> "Slice"
      [] T = "map[string]string"    -> "Map"
      [] T \in PtrTypes             -> "Ptr"

\* the zero value of a non-pointer type (`var zero T`, reflect.Zero)
ZeroValue(T) ==
    CASE T = "int"                  -> IntV(0)
      [] T = "string"               -> StringV("")
      [] T = "StructComparable"     -> StructComparableV("", 0)
      [] T = "ComparableStruct"        -> ComparableStructV("", NilField)
      [] T = "StructNonComparable"  -> StructNonComparableV("", NilSlice)
      [] T = "[]string"             -> SliceV(NilSlice)
      [] T = "map[string]string"    -> MapV(NilMap)

NilPtr(T) == [t |-> T, nil |-> TRUE, elem |-> ZeroValue(Elem(T))]

\* ptr.To(v)
Ptr(v) == [t |-> PtrTo(v.t), nil |-> FALSE, elem |-> v]

ValuesOfValueType(T) ==
    CASE T = "int"                  -> {IntV(n) : n \in Ints}
      [] T = "string"               -> {StringV(s) : s \in Strings}
      [] T = "StructComparable"     -> {StructComparableV(s, n) : s \in Strings, n \in Ints}
      [] T = "ComparableStruct"        -> {ComparableStructV(s, p) : s \in {"", "a"}, p \in PtrFields}
      [] T = "StructNonComparable"  -> {StructNonComparableV(s, ss) : s \in Strings, ss \in SliceData}
      [] T = "[]string"             -> {SliceV(d) : d \in SliceData}
      [] T = "map[string]string"    -> {MapV(d) : d \in MapData}

ValuesOf(T) ==
    IF T \in PtrTypes
    THEN {NilPtr(T)} \cup {Ptr(v) : v \in ValuesOfValueType(Elem(T))}
    ELSE ValuesOfValueType(T)

\* the pointer fields reachable from a value
PtrFieldsOf(v) ==
    IF v.t = "ComparableStruct" THEN {v.StringPtrField}
    ELSE IF v.t = "*ComparableStruct" /\ ~v.nil THEN {v.elem.StringPtrField}
    ELSE {}

\* two values can be in memory together: one address holds one int
SameHeap(a, b) ==
    \A p \in PtrFieldsOf(a), q \in PtrFieldsOf(b) : p.addr = q.addr => p.s = q.s

\* the pairs (value, oldValue) of type T
ValuePairs(T) == {pr \in ValuesOf(T) \X ValuesOf(T) : SameHeap(pr[1], pr[2])}

(***************************************************************************)
(* Equalities.                                                             *)
(***************************************************************************)
\* a == b for two values of one comparable type: pointers compare by address
GoEqual(a, b) ==
    IF a.t = "ComparableStruct"
    THEN a.StringField = b.StringField /\ a.StringPtrField.addr = b.StringPtrField.addr
    ELSE a = b

\* reflect.DeepEqual on two pointer fields: both nil, or equal pointees
PtrFieldDeepEqual(p, q) ==
    IF p.addr = 0 \/ q.addr = 0 THEN p.addr = q.addr ELSE p.s = q.s

\* reflect.DeepEqual: a nil slice or map differs from an empty one
RECURSIVE reflectDeepEqual(_, _)
reflectDeepEqual(a, b) ==
    CASE Kind(a.t) = "Ptr" ->
            IF a.nil \/ b.nil THEN a.nil = b.nil ELSE reflectDeepEqual(a.elem, b.elem)
      [] a.t = "ComparableStruct" ->
            a.StringField = b.StringField /\ PtrFieldDeepEqual(a.StringPtrField, b.StringPtrField)
      [] OTHER -> a = b

\* semantic equality of two []string: empty and nil are the same
SliceSemanticEqual(x, y) ==
    IF Len(x.elems) = 0 \/ Len(y.elems) = 0
    THEN Len(x.elems) = Len(y.elems)
    ELSE x.elems = y.elems

\* semantic equality of two map[string]string: empty and nil are the same
MapSemanticEqual(x, y) == x.kv = y.kv

\* equality.Semantic.DeepEqual
RECURSIVE DeepEqual(_, _)
DeepEqual(a, b) ==
    CASE Kind(a.t) = "Ptr" ->
            IF a.nil \/ b.nil THEN a.nil = b.nil ELSE DeepEqual(a.elem, b.elem)
      [] a.t = "ComparableStruct"    ->
            a.StringField = b.StringField /\ PtrFieldDeepEqual(a.StringPtrField, b.StringPtrField)
      [] a.t = "StructNonComparable" -> a.S = b.S /\ SliceSemanticEqual(a.SS, b.SS)
      [] a.t = "[]string"            -> SliceSemanticEqual(a.d, b.d)
      [] a.t = "map[string]string"   -> MapSemanticEqual(a.d, b.d)
      [] OTHER -> a = b

(***************************************************************************)
(* The frozen and the immutable validators.  An error list is a sequence.  *)
(***************************************************************************)
FrozenByCompare_oldNilOk(op, path, value, oldValue) ==
    IF op # "Update" THEN <<>>
    ELSE IF oldValue.nil THEN <<>>
    ELSE IF value.nil \/ ~GoEqual(value.elem, oldValue.elem)
         THEN << Forbidden(path, "field is frozen") >>
         ELSE <<>>

FrozenByCompare_noOpCheck(op, path, value, oldValue) ==
    IF value.nil /\ oldValue.nil THEN <<>>
    ELSE IF value.nil \/ oldValue.nil \/ ~GoEqual(value.elem, oldValue.elem)
         THEN << Forbidden(path, "field is frozen") >>
         ELSE <<>>

FrozenByCompare(op, path, value, oldValue) ==
    IF op # "Update" THEN <<>>
    ELSE IF value.nil /\ oldValue.nil THEN <<>>
    ELSE IF value.nil \/ oldValue.nil \/ ~GoEqual(value.elem, oldValue.elem)
         THEN << Forbidden(path, "field is frozen") >>
         ELSE <<>>

FrozenByReflect_nilOk(op, path, value, oldValue) ==
    IF op # "Update" THEN <<>>
    ELSE IF Kind(value.t) = "Ptr" /\ (value.nil \/ oldValue.nil) THEN <<>>
    ELSE IF ~DeepEqual(value, oldValue)
         THEN << Forbidden(path, "field is frozen") >>
         ELSE <<>>

FrozenByReflect(op, path, value, oldValue) ==
    IF op # "Update" THEN <<>>
    ELSE IF ~DeepEqual(value, oldValue)
         THEN << Forbidden(path, "field is frozen") >>
         ELSE <<>>

\* isUnsetComparable: a nil pointer, or a pointer to the zero value
isUnsetComparable(v) ==
    IF v.nil THEN TRUE ELSE GoEqual(v.elem, ZeroValue(v.elem.t))

\* the isUnset closure of ImmutablePointerByCompare
isNilPointer(v) == v.nil

\* isUnsetForReflect
isUnsetForReflect(value) ==
    IF Kind(value.t) = "Ptr"
    THEN IF value.nil THEN TRUE
         ELSE IF Kind(value.elem.t) = "Struct"
              THEN reflectDeepEqual(value.elem, ZeroValue(value.elem.t))
              ELSE FALSE
    ELSE CASE Kind(value.t) = "Slice"  -> value.d.nil \/ Len(value.d.elems) = 0
           [] Kind(value.t) = "Map"    -> value.d.nil \/ Cardinality(value.d.kv) = 0
           [] Kind(value.t) = "String" -> value.s = ""
           [] Kind(value.t) = "Struct" -> reflectDeepEqual(value, ZeroValue(value.t))
           [] OTHER                    -> value = ZeroValue(value.t)

\* the call isUnset(v) of the isUnset function handed to
\* immutableByCompareCheck
CallIsUnset(isUnset, v) ==
    CASE isUnset = "isUnsetComparable" -> isUnsetComparable(v)
      [] isUnset = "isNilPointer"      -> isNilPointer(v)

immutableByCompareCheck(op, path, value, oldValue, isUnset) ==
    IF op # "Update" THEN <<>>
    ELSE IF value.nil /\ oldValue.nil THEN <<>>
    ELSE IF oldValue.nil THEN <<>>
    ELSE IF value.nil THEN << Forbidden(path, "field is immutable") >>
    ELSE LET oldIsUnset == CallIsUnset(isUnset, oldValue)
             newIsUnset == CallIsUnset(isUnset, value)
         IN  IF oldIsUnset = newIsUnset /\ GoEqual(value.elem, oldValue.elem) THEN <<>>
             ELSE IF oldIsUnset /\ ~newIsUnset THEN <<>>
             ELSE << Forbidden(path, "field is immutable") >>

ImmutableValueByCompare(op, path, value, oldValue) ==
    immutableByCompareCheck(op, path, value, oldValue, "isUnsetComparable")

ImmutablePointerByCompare(op, path, value, oldValue) ==
    immutableByCompareCheck(op, path, value, oldValue, "isNilPointer")

ImmutableByReflect_setToUnset(op, path, value, oldValue) ==
    IF op # "Update" THEN <<>>
    ELSE IF DeepEqual(value, oldValue) THEN <<>>
    ELSE IF ~isUnsetForReflect(oldValue) /\ isUnsetForReflect(value) THEN <<>>
    ELSE << Forbidden(path, "field is immutable") >>

ImmutableByReflect(op, path, value, oldValue) ==
    IF op # "Update" THEN <<>>
    ELSE IF DeepEqual(value, oldValue) THEN <<>>
    ELSE IF isUnsetForReflect(oldValue) /\ ~isUnsetForReflect(value) THEN <<>>
    ELSE << Forbidden(path, "field is immutable") >>

\* the validators by name
ByCompareFns == {"FrozenByCompare", "ImmutableValueByCompare", "ImmutablePointerByCompare"}

ByReflectFns == {"FrozenByReflect", "ImmutableByReflect"}

\* the validators that enforce the immutable (set once) policy
ImmutableFns == {"ImmutableValueByCompare", "ImmutablePointerByCompare", "ImmutableByReflect"}

\* the types a validator is instantiated with: *T for a comparable T, or any T
ArgTypes(fn) ==
    IF fn \in ByCompareFns THEN {PtrTo(T) : T \in ComparableTypes} ELSE Types

\* the call fn(ctx, op, path, value, oldValue)
CallValidator(fn, op, path, value, oldValue) ==
    CASE fn = "FrozenByCompare"           -> FrozenByCompare(op, path, value, oldValue)
      [] fn = "FrozenByReflect"           -> FrozenByReflect(op, path, value, oldValue)
      [] fn = "ImmutableValueByCompare"   -> ImmutableValueByCompare(op, path, value, oldValue)
      [] fn = "ImmutablePointerByCompare" -> ImmutablePointerByCompare(op, path, value, oldValue)
      [] fn = "ImmutableByReflect"        -> ImmutableByReflect(op, path, value, oldValue)

\* unset, in the sense of the validator fn
IsUnsetFor(fn, v) ==
    CASE fn = "ImmutableValueByCompare"   -> isUnsetComparable(v)
      [] fn = "ImmutablePointerByCompare" -> isNilPointer(v)
      [] fn = "ImmutableByReflect"        -> isUnsetForReflect(v)

\* equal, in the sense of the validator fn
IsEqualFor(fn, a, b) ==
    IF fn \in ByCompareFns
    THEN IF a.nil \/ b.nil THEN a.nil = b.nil ELSE GoEqual(a.elem, b.elem)
    ELSE DeepEqual(a, b)

(***************************************************************************)
(* The uniqueness validators over a slice: UniqueByCompare (==),           *)
(* UniqueByReflect (semantic deep equality) and Unique (a caller's         *)
(* equality function).                                                     *)
(***************************************************************************)
Duplicate(path, value) ==
    [type |-> "FieldValueDuplicate", field |-> path, value |-> value]

\* the element types of the slices: a comparable struct for UniqueByCompare
\* and Unique, a struct holding a slice for UniqueByReflect
UniqueElems(fn) ==
    IF fn = "UniqueByReflect"
    THEN {StructNonComparableV(x, d) : x \in {"", "a"}, d \in SliceData}
    ELSE Items

\* the equality functions a uniqueness validator compares elements with
UniqueCmps(fn) ==
    CASE fn = "UniqueByCompare" -> {"DirectEqual"}
      [] fn = "UniqueByReflect" -> {"SemanticDeepEqual"}
      [] fn = "Unique"          -> {"DirectEqual", "KeyEqual"}

\* the call cmp(a, b)
UniqueEqual(cmp, a, b) ==
    IF cmp = "SemanticDeepEqual" THEN DeepEqual(a, b) ELSE Compare(cmp, a, b)

\* walk the slice from position j on: one Duplicate error at the index of
\* each element that equals an element seen earlier
RECURSIVE uniqueFrom_perGroup(_, _, _, _)
uniqueFrom_perGroup(path, slice, cmp, j) ==
    IF j > Len(slice) THEN <<>>
    ELSE LET seen == {k \in 1..(j - 1) : UniqueEqual(cmp, slice[k], slice[j])}
         IN  (IF Cardinality(seen) = 1
              THEN << Duplicate(Index(path, j - 1), slice[j]) >>
              ELSE <<>>) \o uniqueFrom_perGroup(path, slice, cmp, j + 1)

RECURSIVE uniqueFrom(_, _, _, _)
uniqueFrom(path, slice, cmp, j) ==
    IF j > Len(slice) THEN <<>>
    ELSE (IF \E k \in 1..(j - 1) : UniqueEqual(cmp, slice[k], slice[j])
          THEN << Duplicate(Index(path, j - 1), slice[j]) >>
          ELSE <<>>) \o uniqueFrom(path, slice, cmp, j + 1)

unique(path, slice, cmp) == uniqueFrom(path, slice, cmp, 1)

UniqueFns == {"UniqueByCompare", "UniqueByReflect", "Unique"}

(***************************************************************************)
(* ListMapItemByKeyValues over []Item, Item {ID string; Data string}.      *)
(***************************************************************************)
ItemIDs == {"temp", "high"}

ItemData == {"d1", "d2"}

ListItems == [ID : ItemIDs, Data : ItemData]

\* TList: a nil list and an empty list are both <<>> (the function only
\* ranges over a list)
ItemLists == SeqsUpTo(ListItems, MaxLen)

\* MatchFn[Item]: the predicate item.ID == id, named by id
MatchFns == ItemIDs

\* the call matches(&list[k])
Matches(m, item) == item.ID = m

\* the range loop with break: the position (1-based) of the first element
\* the predicate matches, 0 if there is none (the pointer stays nil)
firstMatch_last(list, m) ==
    LET hits == {k \in 1..Len(list) : Matches(m, list[k])}
    IN  IF hits = {} THEN 0 ELSE CHOOSE k \in hits : \A h \in hits : h <= k

firstMatch(list, m) ==
    LET hits == {k \in 1..Len(list) : Matches(m, list[k])}
    IN  IF hits = {} THEN 0 ELSE CHOOSE k \in hits : \A h \in hits : k <= h

\* path after the two loops: fldPath.Index(i) of the match in newList, or
\* fldPath when newList has no match
ListMapItemPath_noIndex(path, matchedNew) == path

ListMapItemPath(path, matchedNew) ==
    IF matchedNew # 0 THEN Index(path, matchedNew - 1) ELSE path

(***************************************************************************)
(* Names and the name format validators.  A Go string is the sequence of   *)
(* its bytes, each byte a one-character string.                            *)
(***************************************************************************)
\* strings.Repeat(c, n)
Repeat(c, n) == [k \in 1..n |-> c]

\* the inputs of TestMaskTrailingDash and TestGenerateName
MaskTestNames ==
    { <<>>,
      << "-" >>,
      << "f", "o", "o" >>,
      << "-", "f", "o", "o" >>,
      << "f", "o", "o", "-" >>,
      << "b", "-" >>,
      << "f", "o", "o", "-", "-", "-" >> }

\* the longest name LongName accepts
DNS1123SubdomainMaxLength == 253

\* "a" + strings.Repeat("b", n-2) + "c": a single label of n bytes
LongLabel(n) == << "a" >> \o Repeat("b", n - 2) \o << "c" >>

\* labels of 60 bytes joined by dots, n bytes in all
LongSubdomain(n) ==
    Repeat("a", 60) \o << "." >> \o Repeat("b", 60) \o << "." >> \o Repeat("c", 60)
       \o << "." >> \o Repeat("d", 60) \o << "." >> \o Repeat("e", n - 244)

\* names around the length limit
LongNames ==
    UNION { {LongLabel(n), LongSubdomain(n), Repeat("-", n)} :
               n \in (DNS1123SubdomainMaxLength - 1)..(DNS1123SubdomainMaxLength + 1) }

\* "-this-is-not-a-label"
NotALabel ==
    << "-", "t", "h", "i", "s", "-", "i", "s", "-", "n", "o", "t", "-", "a", "-",
       "l", "a", "b", "e", "l" >>

\* the bytes short names are made of: a lowercase letter, a digit, an
\* uppercase letter, the dash and the dot
NameChars == {"a", "1", "A", "-", "."}

\* the names handed to the name functions
Names == SeqsUpTo(NameChars, MaxNameLen) \cup MaskTestNames \cup LongNames \cup {NotALabel}

\* maskTrailingDash of package validation
maskTrailingDash_dropOnly(name) ==
    IF Len(name) > 1 /\ name[Len(name)] = "-"
    THEN SubSeq(name, 1, Len(name) - 2)
    ELSE name

maskTrailingDash_finalOnly(name) ==
    IF Len(name) > 1 /\ name[Len(name)] = "-"
    THEN SubSeq(name, 1, Len(name) - 1) \o << "a" >>
    ELSE name

maskTrailingDash_x(name) ==
    IF Len(name) > 1 /\ name[Len(name)] = "-"
    THEN SubSeq(name, 1, Len(name) - 2) \o << "x" >>
    ELSE name

maskTrailingDash(name) ==
    IF Len(name) > 1 /\ name[Len(name)] = "-"
    THEN SubSeq(name, 1, Len(name) - 2) \o << "a" >>
    ELSE name

\* maskTrailingDash of package validate
validate_maskTrailingDash(name) ==
    IF Len(name) > 1 /\ name[Len(name)] = "-"
    THEN SubSeq(name, 1, Len(name) - 2) \o << "x" >>
    ELSE name

\* [a-z0-9]
LowerAlnum ==
    {"a", "b", "c", "d", "e", "f", "g", "h", "i", "j", "k", "l", "m", "n", "o", "p",
     "q", "r", "s", "t", "u", "v", "w", "x", "y", "z",
     "0", "1", "2", "3", "4", "5", "6", "7", "8", "9"}

\* the whole name matches [a-z0-9]([-a-z0-9]*[a-z0-9])?(\.[a-z0-9]([-a-z0-9]*[a-z0-9])?)*
dns1123SubdomainMatch_anyEnd(name) ==
    /\ Len(name) > 0
    /\ \A k \in 1..Len(name) : name[k] \in LowerAlnum \cup {"-", "."}
    /\ \A k \in 1..Len(name) :
          name[k] = "." =>
             /\ (IF k > 1 THEN name[k - 1] \in LowerAlnum ELSE FALSE)
             /\ (IF k < Len(name) THEN name[k + 1] \in LowerAlnum ELSE FALSE)

dns1123SubdomainMatch(name) ==
    /\ Len(name) > 0
    /\ \A k \in 1..Len(name) : name[k] \in LowerAlnum \cup {"-", "."}
    /\ name[1] \in LowerAlnum
    /\ name[Len(name)] \in LowerAlnum
    /\ \A k \in 1..Len(name) :
          name[k] = "." =>
             /\ (IF k > 1 THEN name[k - 1] \in LowerAlnum ELSE FALSE)
             /\ (IF k < Len(name) THEN name[k + 1] \in LowerAlnum ELSE FALSE)

\* field.Invalid(fldPath, value, msg).WithOrigin(origin)
InvalidWithOrigin(path, origin) ==
    [type |-> "FieldValueInvalid", field |-> path, origin |-> origin]

\* LongName: one Invalid error for a name that is too long and one for a
\* name that is not of the subdomain syntax
LongName(path, value) ==
    (IF Len(value) > DNS1123SubdomainMaxLength
     THEN << InvalidWithOrigin(path, "format=k8s-long-name") >> ELSE <<>>)
    \o (IF ~dns1123SubdomainMatch(value)
        THEN << InvalidWithOrigin(path, "format=k8s-long-name") >> ELSE <<>>)

\* the validators handed to GenerateName: LongName, and the function of
\* TestGenerateName that records its call and returns nil
WrappedValidators == {"LongName", "recorder"}

\* the call fn(ctx, op, fldPath, &value, nil)
CallWrapped(fn, path, value) ==
    CASE fn = "LongName" -> LongName(path, value)
      [] fn = "recorder" -> <<>>

\* GenerateName: the value handed to the wrapped validator
GenerateNameCopy_unmasked(value) == value

GenerateNameCopy(value) == validate_maskTrailingDash(value)

\* ValidateNameAsK8sLongName
ValidateNameAsK8sLongName(path, name, prefix) ==
    LongName(path, IF prefix THEN maskTrailingDash(name) ELSE name)

(***************************************************************************)
(* Generated validation code: Validate_T1 (fields S and F) and             *)
(* Validate_Struct of the maxlength tests (fields Max0Field and            *)
(* Max0PtrField).  A pointer is its address and the value it points to.    *)
(***************************************************************************)
\* fldPath.Child(name)
Child(path, name) == Append(path, [name |-> name, index |-> -1])

\* a float64; NaN differs from every float64, itself included
Floats == {"0", "1", "NaN"}

FloatV(x) == [t |-> "float64", f |-> x]

GenTypes == {"T1", "Struct"}

\* the fields with validation, in the order of the generated code
GenFields(T) ==
    IF T = "T1" THEN << "s", "f" >> ELSE << "max0Field", "max0PtrField" >>

\* the objects of type T, each at an address
GenObjects(T) ==
    IF T = "T1"
    THEN [t : {"T1"}, addr : 1..NumAddr,
          s : {StringV(x) : x \in Strings}, f : {FloatV(x) : x \in Floats}]
    ELSE [t : {"Struct"}, addr : 1..NumAddr,
          max0Field : {StringV(x) : x \in Strings}, max0PtrField : PtrFields]

\* a nil object pointer
NilObj == [t |-> "nil", addr |-> 0]

\* obj and oldObj can be in memory together: one address holds one value
GenSameHeap(obj, oldObj) ==
    IF oldObj = NilObj THEN TRUE
    ELSE /\ oldObj.addr = obj.addr => oldObj = obj
         /\ obj.t = "Struct" =>
               (obj.max0PtrField.addr = oldObj.max0PtrField.addr
                   => obj.max0PtrField.s = oldObj.max0PtrField.s)

\* the old objects obj can be validated against
GenOldObjects(obj) ==
    {o \in {NilObj} \cup GenObjects(obj.t) : GenSameHeap(obj, o)}

\* a nil pointer to a field value
NilRef == [addr |-> << 0, "nil" >>, v |-> [t |-> "none"]]

\* &obj.Field for a value field, obj.Field for a pointer field
FieldRef(obj, fname) ==
    IF fname = "max0PtrField"
    THEN IF obj[fname].addr = 0 THEN NilRef
         ELSE [addr |-> << obj[fname].addr, "heap" >>, v |-> StringV(obj[fname].s)]
    ELSE [addr |-> << obj.addr, fname >>, v |-> obj[fname]]

\* safe.Field(oldObj, getter): nil when oldObj is nil
SafeField(oldObj, fname) ==
    IF oldObj = NilObj THEN NilRef ELSE FieldRef(oldObj, fname)

\* *obj == *oldObj
DerefEqual(a, b) ==
    IF a.t = "float64" THEN a.f # "NaN" /\ a = b ELSE GoEqual(a, b)

\* the guard of the generated field closure:
\* op.Type == operation.Update && (obj == oldObj || (obj != nil && oldObj != nil && *obj == *oldObj))
NoChanges_samePointerOnly(op, obj, oldObj) ==
    op = "Update" /\ obj.addr = oldObj.addr

NoChanges_anyOp(op, obj, oldObj) ==
    IF obj.addr = oldObj.addr THEN TRUE
    ELSE IF obj # NilRef /\ oldObj # NilRef THEN DerefEqual(obj.v, oldObj.v) ELSE FALSE

NoChanges(op, obj, oldObj) ==
    /\ op = "Update"
    /\ IF obj.addr = oldObj.addr THEN TRUE
       ELSE IF obj # NilRef /\ oldObj # NilRef THEN DerefEqual(obj.v, oldObj.v) ELSE FALSE

\* validate.FixedResult(ctx, op, fldPath, obj, oldObj, result, arg)
FixedResult(path, result, arg) ==
    IF result THEN <<>> ELSE << Invalid(path, arg) >>

\* validate.MaxLength(ctx, op, fldPath, obj, oldObj, 0)
MaxLength0(path, obj) ==
    IF obj = NilRef THEN <<>>
    ELSE IF obj.v.s # "" THEN << Invalid(path, "too long") >> ELSE <<>>

\* the tag validators of a field, run in the field closure after the guard
FieldValidators(T, fname, path, obj) ==
    CASE T = "T1" /\ fname = "s" -> FixedResult(path, FALSE, "field T1.S")
      [] T = "T1" /\ fname = "f" -> FixedResult(path, FALSE, "field T1.F")
      [] T = "Struct"            -> MaxLength0(path, obj)

(***************************************************************************)
(* EqOneOf[T comparable] for T = int, string and float64.  A Go string is  *)
(* a sequence of one-byte strings.  A *T is nil or the value it points to: *)
(* EqOneOf only dereferences it.                                           *)
(***************************************************************************)
EqInts == -1..MaxInt

EqStrings == {<<>>, << "1" >>, << "a" >>, << "-", "1" >>}

EqStringV(s) == [t |-> "string", s |-> s]

NilT == [t |-> "nil"]

EqTypes == {"int", "string", "float64"}

\* the values of T
EqValues(T) ==
    CASE T = "int"     -> {IntV(n) : n \in EqInts}
      [] T = "string"  -> {EqStringV(s) : s \in EqStrings}
      [] T = "float64" -> {FloatV(x) : x \in Floats}

\* *value == a
EqualT(a, b) ==
    IF a.t = "float64" THEN a.f # "NaN" /\ a.f = b.f ELSE GoEqual(a, b)

Digits == << "0", "1", "2", "3", "4", "5", "6", "7", "8", "9" >>

RECURSIVE FormatNat(_)
FormatNat(n) ==
    IF n < 10 THEN << Digits[n + 1] >>
    ELSE FormatNat(n \div 10) \o << Digits[(n % 10) + 1] >>

\* fmt.Sprintf("%v", v)
Sprintf_v(v) ==
    CASE v.t = "int"     -> IF v.n < 0 THEN << "-" >> \o FormatNat(-v.n) ELSE FormatNat(v.n)
      [] v.t = "string"  -> v.s
      [] v.t = "float64" -> IF v.f = "NaN" THEN << "N", "a", "N" >> ELSE << v.f >>

\* field.NotSupported(fldPath, value, validValues).WithOrigin(origin)
NotSupported(path, value, validValues, origin) ==
    [type |-> "FieldValueNotSupported", field |-> path, badValue |-> value,
     validValues |-> validValues, origin |-> origin]

EqOneOf_firstOnly(path, value, allowed) ==
    IF value = NilT THEN <<>>
    ELSE IF allowed # <<>> /\ EqualT(value, allowed[1]) THEN <<>>
    ELSE << NotSupported(path, Sprintf_v(value),
                         [k \in 1..Len(allowed) |-> Sprintf_v(allowed[k])],
                         "k8s:eqOneOf") >>

EqOneOf(path, value, allowed) ==
    IF value = NilT THEN <<>>
    ELSE IF \E k \in 1..Len(allowed) : EqualT(value, allowed[k]) THEN <<>>
    ELSE << NotSupported(path, Sprintf_v(value),
                         [k \in 1..Len(allowed) |-> Sprintf_v(allowed[k])],
                         "k8s:eqOneOf") >>

(***************************************************************************)
(* ListMapElementByKey over []Element.  Element is a struct whose fields   *)
(* are read by reflection:                                                 *)
(*    Type     string `json:"type"`                                        *)
(*    Count    int    `json:"count"`                                       *)
(*    Ready    bool   `json:"ready"`                                       *)
(*    Skipped  string `json:"-"`                                           *)
(*    Untagged string                                                      *)
(*    hidden   string `json:"hidden"`                                      *)
(* A pointer into a list is the (1-based) position; nil is 0.              *)
(***************************************************************************)
\* typ.Field(i), in declaration order: the Go name, whether PkgPath is
\* empty, the first part of the json tag and the Kind
ElementFields ==
    << [go |-> "Type",     exported |-> TRUE,  nameInTag |-> "type",   kind |-> "string"],
       [go |-> "Count",    exported |-> TRUE,  nameInTag |-> "count",  kind |-> "int"],
       [go |-> "Ready",    exported |-> TRUE,  nameInTag |-> "ready",  kind |-> "bool"],
       [go |-> "Skipped",  exported |-> TRUE,  nameInTag |-> "-",      kind |-> "string"],
       [go |-> "Untagged", exported |-> TRUE,  nameInTag |-> "",       kind |-> "string"],
       [go |-> "hidden",   exported |-> FALSE, nameInTag |-> "hidden", kind |-> "string"] >>

ElementTypes == {"a", "b"}

\* the code points of "a" and "b"
ElementCounts == {97, 98}

Elements ==
    [Type : ElementTypes, Count : ElementCounts, Ready : {TRUE},
     Skipped : {"a"}, Untagged : {"a"}, hidden : {"a"}]

ElementLists == SeqsUpTo(Elements, MaxLen)

KeyNames == {"type", "count", "ready", "-", "", "hidden", "Type", "missing"}

KeyValues == {"a", "b"}

\* fldPath.Key(key)
Key(path, key) == Append(path, [name |-> "", index |-> -1, key |-> key])

\* string(rune(x)) of reflect's cvtIntString
RuneString(x) ==
    CASE x = 97 -> "a"
      [] x = 98 -> "b"
      [] OTHER  -> "\\uFFFD"

\* fieldValue.Type().Comparable() && fieldValue.Type().ConvertibleTo(string)
ComparableConvertibleToString(kind) == kind \in {"string", "int"}

\* the two results (string, bool) of the field at position k once its JSON
\* name is known to be jsonKeyName
ReflectedFieldAsString(sVal, k) ==
    LET f == ElementFields[k]
    IN  IF f.kind = "string" THEN [s |-> sVal[f.go], ok |-> TRUE]
        ELSE IF ComparableConvertibleToString(f.kind)
             THEN [s |-> RuneString(sVal[f.go]), ok |-> TRUE]
        ELSE [s |-> "", ok |-> FALSE]

\* the loop over the fields: the first exported field whose json tag names
\* it jsonKeyName decides
getReflectedJSONFieldValueAsString(sVal, jsonKeyName) ==
    LET named == {k \in 1..Len(ElementFields) :
                     /\ ElementFields[k].exported
                     /\ ElementFields[k].nameInTag \notin {"", "-"}
                     /\ ElementFields[k].nameInTag = jsonKeyName}
    IN  IF named = {} THEN [s |-> "", ok |-> FALSE]
        ELSE ReflectedFieldAsString(sVal, CHOOSE k \in named : \A h \in named : k <= h)

\* the range loop with break over one list: the position of the first
\* element whose key field has the value keyValue, 0 if there is none
foundElementPtr(list, keyName, keyValue) ==
    LET hits == {k \in 1..Len(list) :
                    LET r == getReflectedJSONFieldValueAsString(list[k], keyName)
                    IN  r.ok /\ r.s = keyValue}
    IN  IF hits = {} THEN 0 ELSE CHOOSE k \in hits : \A h \in hits : k <= h

(***************************************************************************)
(* TypedToVal: typed Go values wrapped as CEL values.  A typed value       *)
(* carries its reflect.Kind k; a []byte, slice, map or pointer carries its *)
(* nil-ness.  A map is its set of <<key, value>> pairs.                    *)
(***************************************************************************)
\* val == nil: an interface holding nothing
NilInterface == [k |-> "nilInterface"]

TInt(n) == [k |-> "int", n |-> n]

TString(s) == [k |-> "string", s |-> s]

\* []byte
TBytes(isNil, b) == [k |-> "bytes", nil |-> isNil, b |-> b]

BytesValues == {TBytes(TRUE, <<>>), TBytes(FALSE, <<>>), TBytes(FALSE, << 1 >>)}

\* Struct {S string; Raw []byte}
TStruct(s, raw) == [k |-> "struct", S |-> s, Raw |-> raw]

StructValues == {TStruct(s, raw) : s \in {"a", "b"}, raw \in {TBytes(TRUE, <<>>), TBytes(FALSE, <<>>)}}

TSlice(isNil, elems) == [k |-> "slice", nil |-> isNil, elems |-> elems]

TMap(isNil, kv) == [k |-> "map", nil |-> isNil, kv |-> kv]

\* a pointer: nil, or the value it points to
TNilPtr == [k |-> "ptr", nil |-> TRUE]

TPtr(v) == [k |-> "ptr", nil |-> FALSE, elem |-> v]

PtrsTo(S) == {TNilPtr} \cup {TPtr(v) : v \in S}

SlicesOf(S) == {TSlice(TRUE, <<>>)} \cup {TSlice(FALSE, e) : e \in SeqsUpTo(S, MaxElems)}

MapKeys == {"a", "b"}

\* map[string]V: every assignment of values to a subset of the keys
MapsOf(S) ==
    {TMap(TRUE, {})} \cup
    {TMap(FALSE, {<< key, f[key] >> : key \in ks}) : ks \in SUBSET MapKeys, f \in [MapKeys -> S]}

TypedTypes ==
    {"int", "string", "[]byte", "Struct", "[]int", "[]Struct", "[]*Struct", "[][]byte",
     "map[string]int", "map[string][]byte",
     "*int", "*[]byte", "*Struct", "**Struct", "*[]int", "*[][]byte", "*map[string][]byte"}

TypedInts == {TInt(n) : n \in 0..MaxInt}

\* the values of a type
TypedValues(T) ==
    CASE T = "int"                -> TypedInts
      [] T = "string"             -> {TString(s) : s \in Strings}
      [] T = "[]byte"             -> BytesValues
      [] T = "Struct"             -> StructValues
      [] T = "[]int"              -> SlicesOf(TypedInts)
      [] T = "[]Struct"           -> SlicesOf(StructValues)
      [] T = "[]*Struct"          -> SlicesOf(PtrsTo(StructValues))
      [] T = "[][]byte"           -> SlicesOf(BytesValues)
      [] T = "map[string]int"     -> MapsOf(TypedInts)
      [] T = "map[string][]byte"  -> MapsOf(BytesValues)
      [] T = "*int"               -> PtrsTo(TypedInts)
      [] T = "*[]byte"            -> PtrsTo(BytesValues)
      [] T = "*Struct"            -> PtrsTo(StructValues)
      [] T = "**Struct"           -> PtrsTo(PtrsTo(StructValues))
      [] T = "*[]int"             -> PtrsTo(SlicesOf(TypedInts))
      [] T = "*[][]byte"          -> PtrsTo(SlicesOf(BytesValues))
      [] T = "*map[string][]byte" -> PtrsTo(MapsOf(BytesValues))

\* ref.Val: the CEL values TypedToVal returns
NullValue == [c |-> "null"]

CelInt(n) == [c |-> "int", n |-> n]

CelString(s) == [c |-> "string", s |-> s]

CelBytes(b) == [c |-> "bytes", b |-> b]

\* &sliceVal{value: v}, &mapVal{value: v}, &structVal{value: v}
SliceVal(v) == [c |-> "list", value |-> v]

MapVal(v) == [c |-> "map", value |-> v]

StructVal(v) == [c |-> "object", value |-> v]

\* the two switches of TypedToVal on a value that is not a pointer
WrapKind(v) ==
    CASE v.k = "int"    -> CelInt(v.n)
      [] v.k = "string" -> CelString(v.s)
      [] v.k = "bytes"  -> IF v.nil THEN NullValue ELSE CelBytes(v.b)
      [] v.k = "slice"  -> SliceVal(v)
      [] v.k = "map"    -> MapVal(v)
      [] v.k = "struct" -> StructVal(v)

TypedToVal_oneLevel(val) ==
    IF val.k = "nilInterface" THEN NullValue
    ELSE IF val.k = "ptr"
         THEN IF val.nil THEN NullValue
              ELSE IF val.elem.k = "ptr" THEN [c |-> "err"] ELSE WrapKind(val.elem)
    ELSE WrapKind(val)

\* the loop `for v.Kind() == reflect.Pointer`, then the switches
RECURSIVE TypedToVal(_)
TypedToVal(val) ==
    IF val.k = "nilInterface" THEN NullValue
    ELSE IF val.k = "ptr"
         THEN IF val.nil THEN NullValue ELSE TypedToVal(val.elem)
    ELSE WrapKind(val)

\* equality.Semantic.DeepEqual on two typed values of one type: a nil and an
\* empty slice, []byte or map are the same
RECURSIVE SemanticDeepEqual(_, _)
SemanticDeepEqual(a, b) ==
    CASE a.k = "bytes"  -> a.b = b.b
      [] a.k = "struct" -> a.S = b.S /\ SemanticDeepEqual(a.Raw, b.Raw)
      [] a.k = "slice"  ->
            /\ Len(a.elems) = Len(b.elems)
            /\ \A n \in 1..Len(a.elems) : SemanticDeepEqual(a.elems[n], b.elems[n])
      [] a.k = "map"    ->
            /\ {kv[1] : kv \in a.kv} = {kv[1] : kv \in b.kv}
            /\ \A x \in a.kv, y \in b.kv : x[1] = y[1] => SemanticDeepEqual(x[2], y[2])
      [] a.k = "ptr"    ->
            IF a.nil \/ b.nil THEN a.nil = b.nil ELSE SemanticDeepEqual(a.elem, b.elem)
      [] OTHER          -> a = b

\* types.Bool as the result of Equal; "err" is a *types.Err
Bool(b) == IF b THEN "true" ELSE "false"

\* t.value.Len() of a sliceVal or mapVal
ValueLen(x) == IF x.c = "list" THEN Len(x.value.elems) ELSE Cardinality(x.value.kv)

\* sliceVal.Get(types.Int(i)) for an index in bounds (1-based here)
SliceGet(x, n) == TypedToVal(x.value.elems[n])

\* mapVal.Find(types.String(key)) for a key the map holds
MapFind(x, key) == TypedToVal((CHOOSE kv \in x.value.kv : kv[1] = key)[2])

MapHas(x, key) == \E kv \in x.value.kv : kv[1] = key

\* the orders in which MapRange may visit the keys
KeyOrders == {<< "a", "b" >>, << "b", "a" >>}

RECURSIVE Equal(_, _, _)
RECURSIVE SliceEqualFrom(_, _, _, _)
RECURSIVE MapEqualFrom(_, _, _, _)
\* the loop of sliceVal.Equal from index n on
SliceEqualFrom(x, y, n, ord) ==
    IF n > ValueLen(x) THEN "true"
    ELSE LET eq == Equal(SliceGet(x, n), SliceGet(y, n), ord)
         IN  IF eq # "true" THEN eq ELSE SliceEqualFrom(x, y, n + 1, ord)

\* the loop of mapVal.Equal over the keys in the order ord, from position n
MapEqualFrom(x, y, n, ord) ==
    IF n > Len(ord) THEN "true"
    ELSE IF ~MapHas(x, ord[n]) THEN MapEqualFrom(x, y, n + 1, ord)
    ELSE IF ~MapHas(y, ord[n]) THEN "false"
    ELSE LET vEq == Equal(MapFind(x, ord[n]), MapFind(y, ord[n]), ord)
         IN  IF vEq # "true" THEN vEq ELSE MapEqualFrom(x, y, n + 1, ord)

\* x.Equal(y): types.Null, types.Int, types.String and types.Bytes of
\* cel-go, and structVal, sliceVal and mapVal
Equal(x, y, ord) ==
    CASE x.c = "null"   -> Bool(y.c = "null")
      [] x.c = "int"    -> Bool(y.c = "int" /\ x.n = y.n)
      [] x.c = "string" -> Bool(y.c = "string" /\ x.s = y.s)
      [] x.c = "bytes"  -> Bool(y.c = "bytes" /\ x.b = y.b)
      [] x.c = "object" ->
            IF y.c = "object" THEN Bool(SemanticDeepEqual(x.value, y.value)) ELSE "err"
      [] x.c = "list"   ->
            IF y.c # "list" THEN "err"
            ELSE IF ValueLen(x) # ValueLen(y) THEN "false"
            ELSE SliceEqualFrom(x, y, 1, ord)
      [] x.c = "map"    ->
            IF y.c # "map" THEN "err"
            ELSE IF ValueLen(x) # ValueLen(y) THEN "false"
            ELSE MapEqualFrom(x, y, 1, ord)

(***************************************************************************)
(* createMatchFn of the +k8s:listMapItem and +k8s:item tag validators.     *)
(* A type is a record with the Kind gengo gives it; the element type of    *)
(* the list is a struct whose members carry a Go name, a JSON name and a   *)
(* type.                                                                   *)
(***************************************************************************)
TypeString == [Name |-> "string", Kind |-> "Builtin"]
TypeInt    == [Name |-> "int", Kind |-> "Builtin"]
TypeBool   == [Name |-> "bool", Kind |-> "Builtin"]
TypeInner  == [Name |-> "Inner", Kind |-> "Struct"]

AliasOf(name, t) == [Name |-> name, Kind |-> "Alias", Underlying |-> t]

PointerTo(t) == [Name |-> "*", Kind |-> "Pointer", Elem |-> t]

\* the type with its typedefs removed; a pointer stays a pointer
RECURSIVE NativeType(_)
NativeType(t) ==
    IF t.Kind = "Alias" THEN NativeType(t.Underlying)
    ELSE IF t.Kind = "Pointer" THEN PointerTo(NativeType(t.Elem))
    ELSE t

\* the members of elemT
ItemMembers ==
    << [Name |-> "Type",   JSON |-> "type",   Type |-> TypeString],
       [Name |-> "Status", JSON |-> "status", Type |-> AliasOf("ConditionStatus", TypeString)],
       [Name |-> "Count",  JSON |-> "count",  Type |-> TypeInt],
       [Name |-> "Ready",  JSON |-> "ready",  Type |-> TypeBool],
       [Name |-> "Level",  JSON |-> "level",  Type |-> AliasOf("Level", TypeInt)],
       [Name |-> "Ref",    JSON |-> "ref",    Type |-> PointerTo(TypeString)],
       [Name |-> "Inner",  JSON |-> "inner",  Type |-> TypeInner] >>

JSONKeys == { ItemMembers[i].JSON : i \in DOMAIN ItemMembers }

MatchValues == {"a", "1"}

\* matcherPairs as GetValidations hands them over: at least one pair, every
\* pair naming a member of elemT
MatcherPairs ==
    { p \in SeqsUpTo(JSONKeys \X MatchValues, MaxPairs) : Len(p) >= 1 }

getMemberByJSON(elemT, jsonKey) ==
    elemT[CHOOSE i \in DOMAIN elemT :
             /\ elemT[i].JSON = jsonKey
             /\ \A j \in 1..(i - 1) : elemT[j].JSON # jsonKey]

NoError == [err |-> FALSE]

KeyFieldError(tag, member) ==
    [err |-> TRUE, tag |-> tag, field |-> member.Name, got |-> member.Type.Name]

\* the FunctionLiteral: its body is the nil guard and the conjunction of one
\* condition item.<Name> == "<value>" per pair
FunctionLiteral(conditions) ==
    [Parameters |-> <<"item">>, Results |-> <<"bool">>, Body |-> conditions]

\* the test of the +k8s:listMapItem tag
listMapItemRejects(t) == NativeType(t).Kind # "Builtin"

\* the test of the +k8s:item tag
itemRejects(t) == NativeType(t).Kind # "Builtin" \/ NativeType(t) # TypeString

\* the loop over matcherPairs, bad being the pairs whose member fails the
\* type test of the tag: the first of them ends the loop with the error
matchFnLoop(tag, elemT, matcherPairs, bad) ==
    LET member(p) == getMemberByJSON(elemT, matcherPairs[p][1])
    IN  IF bad # {}
        THEN [fn |-> FunctionLiteral(<<>>),
              err |-> KeyFieldError(tag, member(CHOOSE p \in bad : \A q \in bad : p <= q))]
        ELSE [fn |-> FunctionLiteral([p \in 1..Len(matcherPairs) |->
                        [field |-> member(p).Name, value |-> matcherPairs[p][2]]]),
              err |-> NoError]

listMapItem_createMatchFn(elemT, matcherPairs) ==
    matchFnLoop("listMapItem", elemT, matcherPairs,
                { p \in 1..Len(matcherPairs) :
                     listMapItemRejects(getMemberByJSON(elemT, matcherPairs[p][1]).Type) })

item_createMatchFn(elemT, matcherPairs) ==
    matchFnLoop("item", elemT, matcherPairs,
                { p \in 1..Len(matcherPairs) :
                     itemRejects(getMemberByJSON(elemT, matcherPairs[p][1]).Type) })

\* result.Functions: one Function per validation function of the payload
Functions(tag, matchFn, n) ==
    [k \in 1..n |-> [TagName |-> tag, MatchFn |-> matchFn, Wrapped |-> k]]

(***************************************************************************)
(* sliceVal.Add.  A slice is a header (backing array, length) over an      *)
(* array of the heap; the capacity is what is left of the array.           *)
(* reflect.Append writes into the backing array while the capacity lasts   *)
(* and moves the elements to a new array when it does not.                 *)
(***************************************************************************)
Header(arr, len) == [arr |-> arr, len |-> len]

\* the element types of the wrapped slices: []string, []int64, []int
AddKinds == {"string", "int64", "int"}

\* a Go value with its dynamic type
Typed(type, v) == [type |-> type, v |-> v]

\* the elements a receiver is built from
AddAtoms(kind) == IF kind = "string" THEN {"a", "b"} ELSE {1, 2}

\* the elements an argument of Add is built from
OtherAtoms(kind) == IF kind = "string" THEN {"x", "y"} ELSE {8, 9}

\* the zero value of the element type
ZeroAtom(kind) == IF kind = "string" THEN "" ELSE 0

\* a list handed to Add, and a value that is no traits.Lister
Lister(elems) == [lister |-> TRUE, elems |-> elems]

NonLister == [lister |-> FALSE, elems |-> <<>>]

\* the sliceVal Add returns
SliceValOf(hdr) == [c |-> "list", hdr |-> hdr]

\* the elements of a slice
ElementsOf(heap, hdr) ==
    IF hdr.arr = 0 THEN <<>> ELSE SubSeq(heap[hdr.arr], 1, hdr.len)

Cap(heap, hdr) == IF hdr.arr = 0 THEN 0 ELSE Len(heap[hdr.arr])

\* it.Next().Value() of an element of other: TypedToVal wraps a string as
\* types.String, whose Value is a string, and every integer kind as
\* types.Int, whose Value is an int64
NextValue(kind, v) ==
    IF kind = "string" THEN Typed("string", v) ELSE Typed("int64", v)

\* reflect.Append(s, x) panics unless x is assignable to the element type
AssignableTo(x, kind) == x.type = kind

\* reflect.Append(s, x) for an assignable x; grow is the spare capacity the
\* runtime adds when it allocates
ReflectAppend(heap, hdr, x, grow) ==
    IF hdr.len < Cap(heap, hdr)
    THEN [heap |-> [heap EXCEPT ![hdr.arr][hdr.len + 1] = x.v],
          hdr  |-> Header(hdr.arr, hdr.len + 1)]
    ELSE [heap |-> Append(heap, ElementsOf(heap, hdr) \o <<x.v>>
                                \o [k \in 1..grow |-> ZeroAtom(x.type)]),
          hdr  |-> Header(Len(heap) + 1, hdr.len + 1)]

\* the loop of Add from element idx of other on: the heap and resultValue
\* it ends with, or the panic of reflect.Append
RECURSIVE AddLoop(_, _, _, _, _, _)
AddLoop(heap, resultValue, kind, other, idx, grow) ==
    IF idx > Len(other)
    THEN [panic |-> FALSE, heap |-> heap, hdr |-> resultValue]
    ELSE LET next == NextValue(kind, other[idx])
         IN  IF ~AssignableTo(next, kind)
             THEN [panic |-> TRUE, heap |-> heap, hdr |-> resultValue]
             ELSE LET r == ReflectAppend(heap, resultValue, next, grow)
                  IN  AddLoop(r.heap, r.hdr, kind, other, idx + 1, grow)

\* what Add returns for a value that is no traits.Lister
NoSuchOverload == [c |-> "err", msg |-> "no such overload"]

(***************************************************************************)
(* The iterators of sliceVal and mapVal: a snapshot of the wrapped         *)
(* elements, or of the keys in the order MapKeys gave them, and an index.  *)
(***************************************************************************)
IterElems == {"a", "b"}

IterKeys == {"k1", "k2"}

\* the elements sliceVal.Iterator copies
SliceSnapshots == SeqsUpTo(IterElems, MaxIterLen)

\* the keys mapVal.Iterator copies: the keys of a map, in any order
KeySnapshots ==
    { ks \in SeqsUpTo(IterKeys, MaxIterLen) :
         \A m, n \in 1..Len(ks) : m # n => ks[m] # ks[n] }

IteratorExhausted == [c |-> "err", msg |-> "iterator exhausted"]

\* a run-time panic: index out of range
IndexOutOfRange == [c |-> "panic", msg |-> "index out of range"]

\* sliceIter.Next: the value returned and it.idx afterwards
sliceIterNext(elements, idx) ==
    IF idx >= Len(elements)
    THEN [result |-> IteratorExhausted, idx |-> idx]
    ELSE [result |-> [c |-> "string", v |-> elements[idx + 1]], idx |-> idx + 1]

\* mapIter.Next: it.keys[it.idx] is read unguarded
mapIterNext(keys, idx) ==
    IF idx >= Len(keys)
    THEN [result |-> IndexOutOfRange, idx |-> idx]
    ELSE [result |-> [c |-> "string", v |-> keys[idx + 1]], idx |-> idx + 1]

\* HasNext of either iterator
iterHasNext(elements, idx) == IF idx < Len(elements) THEN "true" ELSE "false"

VARIABLES
    \* one activation of EachSliceVal
    pc,         \* "idle", "loop" (inside the range loop), "done" (returned)
    opType,     \* op.Type
    fldPath,    \* fldPath
    newSlice,   \* newSlice
    oldSlice,   \* oldSlice
    match,      \* match
    equiv,      \* equiv
    validator,  \* validator
    i,          \* position of the range loop in newSlice (1-based)
    errs,       \* errs
    calls,      \* the validator invocations made so far
    \* one call of a frozen / immutable validator
    immFn,      \* the validator called, "none" before the call
    immOp,      \* op.Type
    immPath,    \* fldPath
    immValue,   \* value
    immOld,     \* oldValue
    immErrs,    \* the returned error list
    \* a field guarded by an immutable validator
    fieldFn,    \* the validator of the field, "none" when there is no field
    stored,     \* the field's value in the stored object
    history,    \* the values the field has held, oldest first
    lastErrs,   \* the error list of the last update
    \* one call of a uniqueness validator
    uqFn,       \* the validator called, "none" before the call
    uqPath,     \* fldPath
    uqSlice,    \* newSlice
    uqCmp,      \* the equality function compared with
    uqErrs,     \* the returned error list
    \* one call of ListMapItemByKeyValues
    lmPc,        \* "idle" before the call, "done" after it returned
    lmOp,        \* op.Type
    lmPath,      \* fldPath
    lmNew,       \* newList
    lmOld,       \* oldList
    lmMatches,   \* matches
    lmValidator, \* itemValidator
    lmCalls,     \* the itemValidator invocations made
    lmErrs,      \* the returned error list
    \* one call of a name function
    nmFn,        \* the function called, "none" before the call
    nmPath,      \* fldPath
    nmInput,     \* the caller's string before the call
    nmPrefix,    \* prefix (ValidateNameAsK8sLongName)
    nmWrapped,   \* the validator handed to GenerateName
    nmValue,     \* the caller's string after the call
    nmResult,    \* the string returned (the mask functions)
    nmCalls,     \* the values the wrapped validator was invoked with
    nmErrs,      \* the returned error list
    \* one activation of a generated Validate_<Type> function
    gPc,         \* "idle", "fields" (running the field closures), "done"
    gOp,         \* op.Type
    gObj,        \* obj
    gOld,        \* oldObj
    gField,      \* the position of the next field closure
    gCalls,      \* the fields whose tag validators ran
    gErrs,       \* errs
    \* one call of EqOneOf
    eqT,       \* the type argument T, "none" before the call
    eqPath,    \* fldPath
    eqValue,   \* value
    eqOld,     \* the old value (unnamed parameter)
    eqAllowed, \* allowed
    eqErrs,    \* the returned error list
    \* one call of ListMapElementByKey
    ekPc,        \* "idle" or "done" (returned)
    ekOp,        \* op.Type
    ekPath,      \* fldPath
    ekNew,       \* newList
    ekOld,       \* oldList
    ekKeyName,   \* keyName
    ekKeyValue,  \* keyValue
    ekValidator, \* elementValidator
    ekCalls,     \* the elementValidator invocations made
    ekErrs,      \* the returned error list
    \* one conversion by TypedToVal, or one comparison of two wrapped values
    tvFn,      \* "none" before the call, then "TypedToVal" or "Equal"
    tvType,    \* the static type of the typed values
    tvA,       \* the typed value converted (the receiver's value for Equal)
    tvB,       \* the typed value of the other operand of Equal
    tvOrd,     \* the order in which MapRange visits the keys
    tvOut,     \* the ref.Val returned by TypedToVal, or the result of Equal
    tvSwapped, \* the result of Equal with the operands swapped
    \* one run of GetValidations of +k8s:listMapItem or +k8s:item
    mfTag,       \* "none", or the tag whose GetValidations ran
    mfPairs,     \* matcherPairs
    mfPayload,   \* len(validations.Functions) of the chained validator
    mfErr,       \* the returned error: NoError or the key field it names
    mfFunctions, \* result.Functions
    \* one sliceVal and the Add calls made on it
    adKind,     \* "none", or the element type of the wrapped slice
    adHeap,     \* the backing arrays allocated so far
    adRecv,     \* t.value: the slice header of the receiver
    adRecv0,    \* the receiver's elements when it was wrapped
    adOthers,   \* the arguments of the Add calls made
    adResults,  \* what the Add calls returned
    adReturned, \* each returned list's elements at its return
    adPanicked, \* TRUE once an Add call has panicked
    \* one iterator of a sliceVal or a mapVal
    itKind,    \* "none", "slice" or "map"
    itElems,   \* it.elements of a sliceIter, it.keys of a mapIter
    itIdx,     \* it.idx
    itHasNext, \* what HasNext returned, "unasked" since the last other call
    itCalls    \* the Next calls made: it.idx before and after, and the outcome

eachVars == <<pc, opType, fldPath, newSlice, oldSlice, match, equiv, validator, i, errs, calls>>

immVars == <<immFn, immOp, immPath, immValue, immOld, immErrs>>

fieldVars == <<fieldFn, stored, history, lastErrs>>

uniqueVars == <<uqFn, uqPath, uqSlice, uqCmp, uqErrs>>

listMapVars == <<lmPc, lmOp, lmPath, lmNew, lmOld, lmMatches, lmValidator, lmCalls, lmErrs>>

nameVars == <<nmFn, nmPath, nmInput, nmPrefix, nmWrapped, nmValue, nmResult, nmCalls, nmErrs>>

genVars == <<gPc, gOp, gObj, gOld, gField, gCalls, gErrs>>

eqVars == <<eqT, eqPath, eqValue, eqOld, eqAllowed, eqErrs>>

elemVars == <<ekPc, ekOp, ekPath, ekNew, ekOld, ekKeyName, ekKeyValue, ekValidator, ekCalls, ekErrs>>

typedVars == <<tvFn, tvType, tvA, tvB, tvOrd, tvOut, tvSwapped>>

matchVars == <<mfTag, mfPairs, mfPayload, mfErr, mfFunctions>>

addVars == <<adKind, adHeap, adRecv, adRecv0, adOthers, adResults, adReturned, adPanicked>>

iterVars == <<itKind, itElems, itIdx, itHasNext, itCalls>>

vars == <<eachVars, immVars, fieldVars, uniqueVars, listMapVars, nameVars, genVars, eqVars, elemVars, typedVars, matchVars, addVars, iterVars>>

\* the variables an action of one component leaves alone
notEachVars == <<immVars, fieldVars, uniqueVars, listMapVars, nameVars, genVars, eqVars, elemVars, typedVars, matchVars, addVars, iterVars>>

notImmVars == <<eachVars, fieldVars, uniqueVars, listMapVars, nameVars, genVars, eqVars, elemVars, typedVars, matchVars, addVars, iterVars>>

notFieldVars == <<eachVars, immVars, uniqueVars, listMapVars, nameVars, genVars, eqVars, elemVars, typedVars, matchVars, addVars, iterVars>>

notUniqueVars == <<eachVars, immVars, fieldVars, listMapVars, nameVars, genVars, eqVars, elemVars, typedVars, matchVars, addVars, iterVars>>

notListMapVars == <<eachVars, immVars, fieldVars, uniqueVars, nameVars, genVars, eqVars, elemVars, typedVars, matchVars, addVars, iterVars>>

notNameVars == <<eachVars, immVars, fieldVars, uniqueVars, listMapVars, genVars, eqVars, elemVars, typedVars, matchVars, addVars, iterVars>>

notGenVars == <<eachVars, immVars, fieldVars, uniqueVars, listMapVars, nameVars, eqVars, elemVars, typedVars, matchVars, addVars, iterVars>>

notEqVars == <<eachVars, immVars, fieldVars, uniqueVars, listMapVars, nameVars, genVars, elemVars, typedVars, matchVars, addVars, iterVars>>

notElemVars == <<eachVars, immVars, fieldVars, uniqueVars, listMapVars, nameVars, genVars, eqVars, typedVars, matchVars, addVars, iterVars>>

notTypedVars == <<eachVars, immVars, fieldVars, uniqueVars, listMapVars, nameVars, genVars, eqVars, elemVars, matchVars, addVars, iterVars>>

notMatchVars == <<eachVars, immVars, fieldVars, uniqueVars, listMapVars, nameVars, genVars, eqVars, elemVars, typedVars, addVars, iterVars>>

notAddVars == <<eachVars, immVars, fieldVars, uniqueVars, listMapVars, nameVars, genVars, eqVars, elemVars, typedVars, matchVars, iterVars>>

notIterVars == <<eachVars, immVars, fieldVars, uniqueVars, listMapVars, nameVars, genVars, eqVars, elemVars, typedVars, matchVars, addVars>>

NoValue == [t |-> "none"]

EachIdle ==
    /\ pc = "idle"
    /\ opType = "Create"
    /\ fldPath = NewPath("test")
    /\ newSlice = <<>>
    /\ oldSlice = <<>>
    /\ match = "nil"
    /\ equiv = "nil"
    /\ validator = "NoErrors"
    /\ i = 1
    /\ errs = <<>>
    /\ calls = <<>>

ImmIdle ==
    /\ immFn = "none"
    /\ immOp = "Create"
    /\ immPath = NewPath("test")
    /\ immValue = NoValue
    /\ immOld = NoValue
    /\ immErrs = <<>>

FieldIdle ==
    /\ fieldFn = "none"
    /\ stored = NoValue
    /\ history = <<>>
    /\ lastErrs = <<>>

UniqueIdle ==
    /\ uqFn = "none"
    /\ uqPath = NewPath("test")
    /\ uqSlice = <<>>
    /\ uqCmp = "nil"
    /\ uqErrs = <<>>

ListMapIdle ==
    /\ lmPc = "idle"
    /\ lmOp = "Create"
    /\ lmPath = NewPath("test")
    /\ lmNew = <<>>
    /\ lmOld = <<>>
    /\ lmMatches = "temp"
    /\ lmValidator = "NoErrors"
    /\ lmCalls = <<>>
    /\ lmErrs = <<>>

NameIdle ==
    /\ nmFn = "none"
    /\ nmPath = NewPath("test")
    /\ nmInput = <<>>
    /\ nmPrefix = FALSE
    /\ nmWrapped = "recorder"
    /\ nmValue = <<>>
    /\ nmResult = <<>>
    /\ nmCalls = <<>>
    /\ nmErrs = <<>>

GenIdle ==
    /\ gPc = "idle"
    /\ gOp = "Create"
    /\ gObj = NilObj
    /\ gOld = NilObj
    /\ gField = 1
    /\ gCalls = <<>>
    /\ gErrs = <<>>

EqIdle ==
    /\ eqT = "none"
    /\ eqPath = <<>>
    /\ eqValue = NilT
    /\ eqOld = NilT
    /\ eqAllowed = <<>>
    /\ eqErrs = <<>>

ElemIdle ==
    /\ ekPc = "idle"
    /\ ekOp = "Create"
    /\ ekPath = <<>>
    /\ ekNew = <<>>
    /\ ekOld = <<>>
    /\ ekKeyName = ""
    /\ ekKeyValue = ""
    /\ ekValidator = "NoErrors"
    /\ ekCalls = <<>>
    /\ ekErrs = <<>>

TypedIdle ==
    /\ tvFn = "none"
    /\ tvType = "int"
    /\ tvA = NilInterface
    /\ tvB = NilInterface
    /\ tvOrd = <<>>
    /\ tvOut = NullValue
    /\ tvSwapped = ""

MatchIdle ==
    /\ mfTag = "none"
    /\ mfPairs = <<>>
    /\ mfPayload = 0
    /\ mfErr = NoError
    /\ mfFunctions = <<>>

AddIdle ==
    /\ adKind = "none"
    /\ adHeap = <<>>
    /\ adRecv = Header(0, 0)
    /\ adRecv0 = <<>>
    /\ adOthers = <<>>
    /\ adResults = <<>>
    /\ adReturned = <<>>
    /\ adPanicked = FALSE

IterIdle ==
    /\ itKind = "none"
    /\ itElems = <<>>
    /\ itIdx = 0
    /\ itHasNext = "unasked"
    /\ itCalls = <<>>

(***************************************************************************)
(* SpecEach: one activation of EachSliceVal, one loop iteration per step.  *)
(***************************************************************************)
InitEach == EachIdle /\ ImmIdle /\ FieldIdle /\ UniqueIdle /\ ListMapIdle /\ NameIdle /\ GenIdle /\ EqIdle /\ ElemIdle /\ TypedIdle /\ MatchIdle /\ AddIdle /\ IterIdle

\* a caller enters EachSliceVal
EachSliceValCall ==
    /\ pc = "idle"
    /\ opType' \in OpTypes
    /\ fldPath' \in FldPaths
    /\ newSlice' \in Slices
    /\ oldSlice' \in Slices
    /\ match' \in CompareFuncs
    /\ equiv' \in CompareFuncs
    /\ validator' \in Validators
    /\ pc' = "loop"
    /\ i' = 1
    /\ errs' = <<>>
    /\ calls' = <<>>
    /\ UNCHANGED notEachVars

\* one iteration of the range loop that ends in `continue`
EachSliceValSkip ==
    /\ pc = "loop"
    /\ i <= Len(newSlice)
    /\ LET val == newSlice[i]
           old == OldFor(oldSlice, val, match)
       IN  Ratchets(opType, oldSlice, old, equiv, val)
    /\ i' = i + 1
    /\ UNCHANGED <<pc, opType, fldPath, newSlice, oldSlice, match, equiv, validator, errs, calls>>
    /\ UNCHANGED notEachVars

\* one iteration of the range loop that calls the validator
EachSliceValValidate ==
    /\ pc = "loop"
    /\ i <= Len(newSlice)
    /\ LET val  == newSlice[i]
           old  == OldFor(oldSlice, val, match)
           path == Index(fldPath, i - 1)
       IN  /\ ~Ratchets(opType, oldSlice, old, equiv, val)
           /\ calls' = Append(calls, [path |-> path, newVal |-> val, oldVal |-> old])
           /\ errs' = errs \o Validate(validator, path, val, old)
    /\ i' = i + 1
    /\ UNCHANGED <<pc, opType, fldPath, newSlice, oldSlice, match, equiv, validator>>
    /\ UNCHANGED notEachVars

\* the range loop is exhausted: return errs
EachSliceValReturn ==
    /\ pc = "loop"
    /\ i > Len(newSlice)
    /\ pc' = "done"
    /\ UNCHANGED <<opType, fldPath, newSlice, oldSlice, match, equiv, validator, i, errs, calls>>
    /\ UNCHANGED notEachVars

NextEach ==
    \/ EachSliceValCall
    \/ EachSliceValSkip
    \/ EachSliceValValidate
    \/ EachSliceValReturn

SpecEach == InitEach /\ [][NextEach]_vars

(***************************************************************************)
(* SpecImm: one call of a frozen or immutable validator on any operation,  *)
(* path and pair of values of one type.                                    *)
(***************************************************************************)
InitImm == EachIdle /\ ImmIdle /\ FieldIdle /\ UniqueIdle /\ ListMapIdle /\ NameIdle /\ GenIdle /\ EqIdle /\ ElemIdle /\ TypedIdle /\ MatchIdle /\ AddIdle /\ IterIdle

\* the call of fn on some operation, path and pair of values of one type
Returns(fn) ==
    \E op \in OpTypes, path \in FldPaths, T \in ArgTypes(fn) :
       \E pr \in ValuePairs(T) :
          /\ immFn' = fn
          /\ immOp' = op
          /\ immPath' = path
          /\ immValue' = pr[1]
          /\ immOld' = pr[2]
          /\ immErrs' = CallValidator(fn, op, path, pr[1], pr[2])

FrozenByCompareCall ==
    /\ immFn = "none"
    /\ Returns("FrozenByCompare")
    /\ UNCHANGED notImmVars

FrozenByReflectCall ==
    /\ immFn = "none"
    /\ Returns("FrozenByReflect")
    /\ UNCHANGED notImmVars

ImmutableValueByCompareCall ==
    /\ immFn = "none"
    /\ Returns("ImmutableValueByCompare")
    /\ UNCHANGED notImmVars

ImmutablePointerByCompareCall ==
    /\ immFn = "none"
    /\ Returns("ImmutablePointerByCompare")
    /\ UNCHANGED notImmVars

ImmutableByReflectCall ==
    /\ immFn = "none"
    /\ Returns("ImmutableByReflect")
    /\ UNCHANGED notImmVars

NextImm ==
    \/ FrozenByCompareCall
    \/ FrozenByReflectCall
    \/ ImmutableValueByCompareCall
    \/ ImmutablePointerByCompareCall
    \/ ImmutableByReflectCall

SpecImm == InitImm /\ [][NextImm]_vars

(***************************************************************************)
(* SpecField: an object is created with any value in a field guarded by an *)
(* immutable validator; then the object is updated, each update validated  *)
(* against the stored object and stored only when it has no error.         *)
(***************************************************************************)
InitField ==
    /\ EachIdle
    /\ ImmIdle
    /\ UniqueIdle
    /\ ListMapIdle
    /\ NameIdle
    /\ GenIdle /\ EqIdle /\ ElemIdle /\ TypedIdle /\ MatchIdle /\ AddIdle /\ IterIdle
    /\ fieldFn \in ImmutableFns
    /\ \E T \in ArgTypes(fieldFn) : stored \in ValuesOf(T)
    /\ history = << stored >>
    /\ lastErrs = CallValidator(fieldFn, "Create", NewPath("spec"), stored, stored)

\* the values an update may carry for the field
UpdateValues == {v \in ValuesOf(stored.t) : SameHeap(v, stored)}

\* an update the validator accepts is stored
UpdateAccepted ==
    /\ fieldFn # "none"
    /\ Len(history) <= MaxUpdates
    /\ \E v \in UpdateValues :
         /\ lastErrs' = CallValidator(fieldFn, "Update", NewPath("spec"), v, stored)
         /\ lastErrs' = <<>>
         /\ stored' = v
         /\ history' = Append(history, v)
    /\ UNCHANGED fieldFn
    /\ UNCHANGED notFieldVars

\* an update the validator rejects leaves the stored object as it is
UpdateRejected ==
    /\ fieldFn # "none"
    /\ Len(history) <= MaxUpdates
    /\ \E v \in UpdateValues :
         /\ lastErrs' = CallValidator(fieldFn, "Update", NewPath("spec"), v, stored)
         /\ lastErrs' # <<>>
    /\ UNCHANGED <<fieldFn, stored, history>>
    /\ UNCHANGED notFieldVars

NextField ==
    \/ UpdateAccepted
    \/ UpdateRejected

SpecField == InitField /\ [][NextField]_vars

(***************************************************************************)
(* SpecUnique: one call of a uniqueness validator on any path and slice.   *)
(***************************************************************************)
InitUnique == EachIdle /\ ImmIdle /\ FieldIdle /\ UniqueIdle /\ ListMapIdle /\ NameIdle /\ GenIdle /\ EqIdle /\ ElemIdle /\ TypedIdle /\ MatchIdle /\ AddIdle /\ IterIdle

\* the call of fn on some path and slice
UniqueReturns(fn) ==
    \E path \in FldPaths, cmp \in UniqueCmps(fn) :
       \E slice \in SeqsUpTo(UniqueElems(fn), MaxUniqueLen) :
          /\ uqFn' = fn
          /\ uqPath' = path
          /\ uqSlice' = slice
          /\ uqCmp' = cmp
          /\ uqErrs' = unique(path, slice, cmp)

UniqueByCompareCall ==
    /\ uqFn = "none"
    /\ UniqueReturns("UniqueByCompare")
    /\ UNCHANGED notUniqueVars

UniqueByReflectCall ==
    /\ uqFn = "none"
    /\ UniqueReturns("UniqueByReflect")
    /\ UNCHANGED notUniqueVars

UniqueCall ==
    /\ uqFn = "none"
    /\ UniqueReturns("Unique")
    /\ UNCHANGED notUniqueVars

NextUnique ==
    \/ UniqueByCompareCall
    \/ UniqueByReflectCall
    \/ UniqueCall

SpecUnique == InitUnique /\ [][NextUnique]_vars

(***************************************************************************)
(* SpecListMap: one call of ListMapItemByKeyValues on any operation, path, *)
(* pair of lists, predicate and item validator.                            *)
(***************************************************************************)
InitListMap == EachIdle /\ ImmIdle /\ FieldIdle /\ UniqueIdle /\ ListMapIdle /\ NameIdle /\ GenIdle /\ EqIdle /\ ElemIdle /\ TypedIdle /\ MatchIdle /\ AddIdle /\ IterIdle

\* the arguments of the call
ListMapItemArgs ==
    /\ lmPc = "idle"
    /\ lmOp' \in OpTypes
    /\ lmPath' \in FldPaths
    /\ lmNew' \in ItemLists
    /\ lmOld' \in ItemLists
    /\ lmMatches' \in MatchFns
    /\ lmValidator' \in Validators
    /\ lmPc' = "done"

\* a call that finds no match in either list: return nil
ListMapItemNoMatch ==
    /\ ListMapItemArgs
    /\ firstMatch(lmNew', lmMatches') = 0
    /\ firstMatch(lmOld', lmMatches') = 0
    /\ lmCalls' = <<>>
    /\ lmErrs' = <<>>
    /\ UNCHANGED notListMapVars

\* a call that finds a match: return itemValidator(ctx, op, path,
\* matchedNew, matchedOld)
ListMapItemValidate ==
    /\ ListMapItemArgs
    /\ LET matchedOld == firstMatch(lmOld', lmMatches')
           matchedNew == firstMatch(lmNew', lmMatches')
           path       == ListMapItemPath(lmPath', matchedNew)
       IN  /\ ~(matchedNew = 0 /\ matchedOld = 0)
           /\ lmCalls' = << [path |-> path, newVal |-> matchedNew, oldVal |-> matchedOld] >>
           /\ lmErrs' = Validate(lmValidator', path, matchedNew, matchedOld)
    /\ UNCHANGED notListMapVars

NextListMap ==
    \/ ListMapItemNoMatch
    \/ ListMapItemValidate

SpecListMap == InitListMap /\ [][NextListMap]_vars

(***************************************************************************)
(* SpecName: one call of a name function on any path and name.             *)
(***************************************************************************)
InitName == EachIdle /\ ImmIdle /\ FieldIdle /\ UniqueIdle /\ ListMapIdle /\ NameIdle /\ GenIdle /\ EqIdle /\ ElemIdle /\ TypedIdle /\ MatchIdle /\ AddIdle /\ IterIdle

\* the arguments of a call of fn; the callee gets the string by value or
\* through a pointer it only reads, so the caller's string stays as it was
NameArgs(fn) ==
    /\ nmFn = "none"
    /\ nmFn' = fn
    /\ nmPath' \in FldPaths
    /\ nmInput' \in Names
    /\ nmValue' = nmInput'

\* maskTrailingDash(name) of package validation
MaskTrailingDashCall ==
    /\ NameArgs("maskTrailingDash")
    /\ nmResult' = maskTrailingDash(nmInput')
    /\ UNCHANGED <<nmPrefix, nmWrapped, nmCalls, nmErrs>>
    /\ UNCHANGED notNameVars

\* maskTrailingDash(name) of package validate
ValidateMaskTrailingDashCall ==
    /\ NameArgs("validate.maskTrailingDash")
    /\ nmResult' = validate_maskTrailingDash(nmInput')
    /\ UNCHANGED <<nmPrefix, nmWrapped, nmCalls, nmErrs>>
    /\ UNCHANGED notNameVars

\* GenerateName(ctx, op, fldPath, &value, nil, fn)
GenerateNameCall ==
    /\ NameArgs("GenerateName")
    /\ nmWrapped' \in WrappedValidators
    /\ LET copy == GenerateNameCopy(nmInput')
       IN  /\ nmCalls' = << copy >>
           /\ nmErrs' = CallWrapped(nmWrapped', nmPath', copy)
    /\ UNCHANGED <<nmPrefix, nmResult>>
    /\ UNCHANGED notNameVars

\* LongName(ctx, op, fldPath, &value, nil)
LongNameCall ==
    /\ NameArgs("LongName")
    /\ nmErrs' = LongName(nmPath', nmInput')
    /\ UNCHANGED <<nmPrefix, nmWrapped, nmResult, nmCalls>>
    /\ UNCHANGED notNameVars

\* ValidateNameAsK8sLongName(fldPath, name, prefix)
ValidateNameAsK8sLongNameCall ==
    /\ NameArgs("ValidateNameAsK8sLongName")
    /\ nmPrefix' \in BOOLEAN
    /\ nmErrs' = ValidateNameAsK8sLongName(nmPath', nmInput', nmPrefix')
    /\ UNCHANGED <<nmWrapped, nmResult, nmCalls>>
    /\ UNCHANGED notNameVars

NextName ==
    \/ MaskTrailingDashCall
    \/ ValidateMaskTrailingDashCall
    \/ GenerateNameCall
    \/ LongNameCall
    \/ ValidateNameAsK8sLongNameCall

SpecName == InitName /\ [][NextName]_vars

(***************************************************************************)
(* SpecGen: one activation of Validate_T1 or Validate_Struct, one field    *)
(* closure per step.                                                       *)
(***************************************************************************)
InitGen ==
    EachIdle /\ ImmIdle /\ FieldIdle /\ UniqueIdle /\ ListMapIdle /\ NameIdle /\ GenIdle /\ EqIdle /\ ElemIdle /\ TypedIdle /\ MatchIdle /\ AddIdle /\ IterIdle

\* a caller enters Validate_<T> with a nil fldPath
GenEnter(T) ==
    /\ gOp' \in OpTypes
    /\ gObj' \in GenObjects(T)
    /\ gOld' \in GenOldObjects(gObj')
    /\ gPc' = "fields"
    /\ UNCHANGED <<gField, gCalls, gErrs>>

Validate_T1Call ==
    /\ gPc = "idle"
    /\ GenEnter("T1")
    /\ UNCHANGED notGenVars

Validate_StructCall ==
    /\ gPc = "idle"
    /\ GenEnter("Struct")
    /\ UNCHANGED notGenVars

\* a field closure that returns nil: no changes
GenFieldNoChanges ==
    /\ gPc = "fields"
    /\ gField <= Len(GenFields(gObj.t))
    /\ LET fname == GenFields(gObj.t)[gField]
       IN  NoChanges(gOp, FieldRef(gObj, fname), SafeField(gOld, fname))
    /\ gField' = gField + 1
    /\ UNCHANGED <<gPc, gOp, gObj, gOld, gCalls, gErrs>>
    /\ UNCHANGED notGenVars

\* a field closure that runs the tag validators of the field
GenFieldValidate ==
    /\ gPc = "fields"
    /\ gField <= Len(GenFields(gObj.t))
    /\ LET fname == GenFields(gObj.t)[gField]
           obj   == FieldRef(gObj, fname)
       IN  /\ ~NoChanges(gOp, obj, SafeField(gOld, fname))
           /\ gCalls' = Append(gCalls, fname)
           /\ gErrs' = gErrs \o FieldValidators(gObj.t, fname, Child(<<>>, fname), obj)
    /\ gField' = gField + 1
    /\ UNCHANGED <<gPc, gOp, gObj, gOld>>
    /\ UNCHANGED notGenVars

\* return errs
GenReturn ==
    /\ gPc = "fields"
    /\ gField > Len(GenFields(gObj.t))
    /\ gPc' = "done"
    /\ UNCHANGED <<gOp, gObj, gOld, gField, gCalls, gErrs>>
    /\ UNCHANGED notGenVars

NextGen ==
    \/ Validate_T1Call
    \/ Validate_StructCall
    \/ GenFieldNoChanges
    \/ GenFieldValidate
    \/ GenReturn

SpecGen == InitGen /\ [][NextGen]_vars

(***************************************************************************)
(* Properties of EachSliceVal (SpecEach).                                  *)
(***************************************************************************)
\* the positions of the old elements that match the k-th new element
MatchesOf(k) ==
    IF match = "nil" THEN {}
    ELSE {j \in 1..Len(oldSlice) : Compare(match, oldSlice[j], newSlice[k])}

\* the first of them
FirstMatchOf(k) == CHOOSE j \in MatchesOf(k) : \A m \in MatchesOf(k) : j <= m

\* the k-th new element has a matching old element and is equivalent to it
UnchangedFromOld(k) ==
    /\ MatchesOf(k) # {}
    /\ IF equiv = "nil" THEN TRUE
       ELSE Compare(equiv, newSlice[k], oldSlice[FirstMatchOf(k)])

\* the path fldPath[k-1] of the k-th element
PathOf(k) == Append(fldPath, [name |-> "", index |-> k - 1])

\* s and t hold the same elements, each as many times
IsPermutation(s, t) ==
    /\ Len(s) = Len(t)
    /\ \A x \in Items :
          Cardinality({j \in 1..Len(s) : s[j] = x}) = Cardinality({j \in 1..Len(t) : t[j] = x})

\* C1: on an Update where every new element has a matching old element and
\* (equiv is nil or equiv holds between it and the matched old element),
\* EachSliceVal returns with no validator invocation and an empty error list,
\* whatever the validator and the order of the old elements.
C1_RatchetingSkipsUnchanged ==
    (/\ pc = "done"
     /\ opType = "Update"
     /\ \A k \in 1..Len(newSlice) : UnchangedFromOld(k))
    => (calls = <<>> /\ errs = <<>>)

\* an update of two elements found in another order in old, under a validator
\* that fails on every call
C1_Witness ==
    /\ pc = "done"
    /\ opType = "Update"
    /\ validator = "ExpectNoCalls"
    /\ match = "KeyEqual"
    /\ equiv = "DirectEqual"
    /\ Len(newSlice) >= 2
    /\ Len(oldSlice) >= 2
    /\ newSlice[1] # newSlice[2]
    /\ oldSlice[1] = newSlice[2]
    /\ oldSlice[2] = newSlice[1]
    /\ \A k \in 1..Len(newSlice) : UnchangedFromOld(k)
    /\ calls = <<>>

\* C2: with an absent old slice and nil match and equiv, EachSliceVal calls
\* the validator once per new element, in order, with a nil oldVal and the
\* path indexed by the element's position, on any operation.
C2_NoOldValidatesEach ==
    (/\ pc = "done"
     /\ Len(oldSlice) = 0
     /\ match = "nil"
     /\ equiv = "nil")
    => /\ Len(calls) = Len(newSlice)
       /\ \A k \in 1..Len(newSlice) :
             calls[k] = [path |-> PathOf(k), newVal |-> newSlice[k], oldVal |-> 0]

\* an Update of two elements with no old slice: two calls
C2_Witness ==
    /\ pc = "done"
    /\ opType = "Update"
    /\ Len(oldSlice) = 0
    /\ match = "nil"
    /\ equiv = "nil"
    /\ Len(newSlice) >= 2
    /\ Len(calls) = Len(newSlice)

\* C3: when the operation is not Update nothing is skipped: the validator is
\* called for every new element, with a non-nil pointer to a matching old
\* element wherever one exists; when old is a permutation of new and match is
\* full equality, every call has oldVal equal to newVal.
C3_NoRatchetingUnlessUpdate ==
    (pc = "done" /\ opType # "Update")
    => /\ Len(calls) = Len(newSlice)
       /\ \A k \in 1..Len(newSlice) :
             /\ calls[k].path = PathOf(k)
             /\ calls[k].newVal = newSlice[k]
             /\ MatchesOf(k) # {} => calls[k].oldVal \in MatchesOf(k)
             /\ (match = "DirectEqual" /\ IsPermutation(oldSlice, newSlice))
                   => (calls[k].oldVal # 0 /\ oldSlice[calls[k].oldVal] = newSlice[k])

\* a Create of two elements whose old slice is the reverse: two calls, each
\* with the equal old element
C3_Witness ==
    /\ pc = "done"
    /\ opType = "Create"
    /\ match = "DirectEqual"
    /\ equiv = "DirectEqual"
    /\ Len(newSlice) = 2
    /\ newSlice[1] # newSlice[2]
    /\ oldSlice = << newSlice[2], newSlice[1] >>
    /\ Len(calls) = 2
    /\ calls[1].oldVal = 2
    /\ calls[2].oldVal = 1

(***************************************************************************)
(* Properties of the frozen and immutable validators (SpecImm).            *)
(***************************************************************************)
\* an Update has been validated by one of the immutable validators
ImmutableUpdate == immFn \in ImmutableFns /\ immOp = "Update"

OldUnset == IsUnsetFor(immFn, immOld)

NewUnset == IsUnsetFor(immFn, immValue)

SameValue == IsEqualFor(immFn, immValue, immOld)

\* C5: on Update each immutable validator returns no error when the old
\* value is unset and the new value is set, unset being the validator's own
\* notion.
C5_UnsetToSetAllowed ==
    (ImmutableUpdate /\ OldUnset /\ ~NewUnset) => immErrs = <<>>

\* ImmutableValueByCompare going from a pointer to the zero value to a
\* pointer to a non-zero value
C5_Witness ==
    /\ immFn = "ImmutableValueByCompare"
    /\ immOp = "Update"
    /\ ~immOld.nil
    /\ OldUnset
    /\ ~NewUnset
    /\ immErrs = <<>>

\* C6: on Update each immutable validator returns exactly one Forbidden
\* error at the field path, "field is immutable", when the old value is set
\* and the new value is unset or is set and differs, and no error when both
\* are set and equal.
C6_ClearAndModifyForbidden ==
    ImmutableUpdate =>
       /\ (~OldUnset /\ (NewUnset \/ ~SameValue))
             => immErrs = << Forbidden(immPath, "field is immutable") >>
       /\ (~OldUnset /\ ~NewUnset /\ SameValue) => immErrs = <<>>

\* C7: on Update each immutable validator returns no error when the old and
\* the new value are both unset, equal or not.
C7_UnsetToUnsetAllowed ==
    (ImmutableUpdate /\ OldUnset /\ NewUnset) => immErrs = <<>>

\* C8: when the operation is not Update, each of the five validators returns
\* an empty error list, for any old and new value.
C8_CreateNeverForbids ==
    (immFn # "none" /\ immOp # "Update") => immErrs = <<>>

\* FrozenByCompare on Create with a nil new value and a non-nil old value
C8_Witness ==
    /\ immFn = "FrozenByCompare"
    /\ immOp = "Create"
    /\ immValue.nil
    /\ ~immOld.nil
    /\ immErrs = <<>>

FrozenVerdictsAgree ==
    (immErrs # <<>>) <=> (FrozenByReflect(immOp, immPath, immValue, immOld) # <<>>)

\* C10, as stated: on Update, for every comparable T and every pair of *T,
\* FrozenByCompare returns an error iff FrozenByReflect does.
C10_FrozenStrategiesAgree ==
    (immFn = "FrozenByCompare" /\ immOp = "Update") => FrozenVerdictsAgree

\* the comparable types whose values hold no pointer
PointerFreeTypes == {"int", "string", "StructComparable"}

\* C10, amended: on Update, for every comparable T that holds no pointer
\* (integers, strings and structs of these) and every pair of *T,
\* FrozenByCompare returns an error iff FrozenByReflect does.
C10_FrozenAgreeOnPointerFree ==
    (/\ immFn = "FrozenByCompare"
     /\ immOp = "Update"
     /\ immValue.t \in {PtrTo(T) : T \in PointerFreeTypes})
    => FrozenVerdictsAgree

\* both strategies reject a struct whose field was modified
C10_Witness ==
    /\ immFn = "FrozenByCompare"
    /\ immOp = "Update"
    /\ immValue.t = "*StructComparable"
    /\ ~immValue.nil
    /\ ~immOld.nil
    /\ immValue.elem.I # immOld.elem.I
    /\ immErrs # <<>>
    /\ FrozenByReflect(immOp, immPath, immValue, immOld) # <<>>

\* C11: on Update, for every comparable T and every pair of *T,
\* ImmutablePointerByCompare(new, old) returns as many errors as
\* ImmutableByReflect(new, old), and when both pointers are non-nil
\* ImmutableValueByCompare(new, old) returns as many errors as
\* ImmutableByReflect(*new, *old).
C11_ImmutableStrategiesAgree ==
    /\ (immFn = "ImmutablePointerByCompare" /\ immOp = "Update")
          => Len(immErrs) = Len(ImmutableByReflect(immOp, immPath, immValue, immOld))
    /\ (immFn = "ImmutableValueByCompare" /\ immOp = "Update" /\ ~immValue.nil /\ ~immOld.nil)
          => Len(immErrs) = Len(ImmutableByReflect(immOp, immPath, immValue.elem, immOld.elem))

C4_SetOnce ==
    \A a, b \in 1..Len(history) :
       (a < b /\ ~IsUnsetFor(fieldFn, history[a]))
          => IsEqualFor(fieldFn, history[b], history[a])

(***************************************************************************)
(* Properties of the uniqueness validators (SpecUnique).                   *)
(***************************************************************************)
\* the positions of uqSlice that equal an earlier position
Repeats ==
    {j \in 1..Len(uqSlice) :
        \E k \in 1..(j - 1) : UniqueEqual(uqCmp, uqSlice[k], uqSlice[j])}

\* the classes of equal positions of uqSlice
EqualClasses ==
    {{k \in 1..Len(uqSlice) : UniqueEqual(uqCmp, uqSlice[k], uqSlice[j])} : j \in 1..Len(uqSlice)}

\* C13: a uniqueness validator reports a Duplicate error at index j iff an
\* earlier element equals the j-th one under its equality, exactly one error
\* per such j; so the number of errors is the length of the slice minus the
\* number of distinct values, and zero for an empty or duplicate-free slice.
C13_OneDuplicatePerRepeat ==
    uqFn # "none" =>
       /\ \A e \in 1..Len(uqErrs) : uqErrs[e].type = "FieldValueDuplicate"
       /\ \A j \in 1..Len(uqSlice) :
             Cardinality({e \in 1..Len(uqErrs) : uqErrs[e].field = Index(uqPath, j - 1)})
                = IF j \in Repeats THEN 1 ELSE 0
       /\ Len(uqErrs) = Len(uqSlice) - Cardinality(EqualClasses)
       /\ Repeats = {} => uqErrs = <<>>

\* three equal elements: two errors, at indices 1 and 2
C13_Witness ==
    /\ uqFn = "UniqueByReflect"
    /\ Len(uqSlice) = 3
    /\ Cardinality(EqualClasses) = 1
    /\ uqSlice[1] # uqSlice[2]
    /\ Len(uqErrs) = 2
    /\ uqErrs[1].field = Index(uqPath, 1)
    /\ uqErrs[2].field = Index(uqPath, 2)

(***************************************************************************)
(* Properties of ListMapItemByKeyValues (SpecListMap).                     *)
(***************************************************************************)
\* the positions of list whose element the predicate of the call matches
MatchPositions(list) == {k \in 1..Len(list) : Matches(lmMatches, list[k])}

\* the lowest of a non-empty set of positions, 0 (nil) for the empty set
Lowest(S) == IF S = {} THEN 0 ELSE CHOOSE k \in S : \A h \in S : k <= h

\* C14: when no element of newList or oldList matches, the item validator
\* is not called and the result is empty; otherwise it is called exactly
\* once, with the lowest-indexed match of newList (nil if none) and the
\* lowest-indexed match of oldList (nil if none), and its errors are returned
\* unchanged.
C14_ValidatesFirstMatches ==
    lmPc = "done" =>
       IF MatchPositions(lmNew) = {} /\ MatchPositions(lmOld) = {}
       THEN lmCalls = <<>> /\ lmErrs = <<>>
       ELSE /\ Len(lmCalls) = 1
            /\ lmCalls[1].newVal = Lowest(MatchPositions(lmNew))
            /\ lmCalls[1].oldVal = Lowest(MatchPositions(lmOld))
            /\ lmErrs = Validate(lmValidator, lmCalls[1].path, lmCalls[1].newVal, lmCalls[1].oldVal)

\* two matches in each list, under a validator that fails: one call, with
\* the first match of each list, and one error
C14_Witness ==
    /\ lmPc = "done"
    /\ Cardinality(MatchPositions(lmNew)) = 2
    /\ Cardinality(MatchPositions(lmOld)) = 2
    /\ lmNew[1] # lmNew[2]
    /\ lmValidator = "ExpectNoCalls"
    /\ Len(lmCalls) = 1
    /\ lmCalls[1].newVal = 1
    /\ lmCalls[1].oldVal = 1
    /\ Len(lmErrs) = 1

\* C15: the path handed to the item validator is fldPath indexed by the
\* position of the match in newList when newList has a match, wherever and
\* whether oldList has one, and the bare fldPath when only oldList has a
\* match; the path is a function of the inputs of the call.
C15_PathFollowsNewList ==
    (lmPc = "done" /\ lmCalls # <<>>) =>
       lmCalls[1].path =
          IF MatchPositions(lmNew) # {}
          THEN Index(lmPath, Lowest(MatchPositions(lmNew)) - 1)
          ELSE lmPath

\* the item moved from index 0 in oldList to index 1 in newList: the error
\* is reported at fldPath[1]
C15_Witness ==
    /\ lmPc = "done"
    /\ Len(lmCalls) = 1
    /\ lmCalls[1].oldVal = 1
    /\ lmCalls[1].newVal = 2
    /\ lmCalls[1].path = Index(lmPath, 1)
    /\ lmErrs = << Invalid(Index(lmPath, 1), "expected no calls") >>

\* the item was deleted: the error is reported at the bare fldPath
C15_WitnessDeleted ==
    /\ lmPc = "done"
    /\ Len(lmOld) > 0
    /\ MatchPositions(lmNew) = {}
    /\ Len(lmCalls) = 1
    /\ lmCalls[1].path = lmPath

(***************************************************************************)
(* Properties of the name functions (SpecName).                            *)
(***************************************************************************)
\* the two functions named maskTrailingDash
MaskFns == {"maskTrailingDash", "validate.maskTrailingDash"}

\* the results TestMaskTrailingDash expects, c being the substitute byte
MaskTestExpected(name, c) ==
    CASE name = << "f", "o", "o", "-" >>           -> << "f", "o", c >>
      [] name = << "b", "-" >>                     -> << c >>
      [] name = << "f", "o", "o", "-", "-", "-" >> -> << "f", "o", "o", "-", c >>
      [] OTHER                                     -> name

\* the byte a mask function appends
MaskChar(fn) == IF fn = "maskTrailingDash" THEN "a" ELSE "x"

C18_GenerateNameDelegatesOnce ==
    nmFn = "GenerateName" =>
       /\ Len(nmCalls) = 1
       /\ nmCalls[1] = IF Len(nmInput) > 1 /\ nmInput[Len(nmInput)] = "-"
                       THEN SubSeq(nmInput, 1, Len(nmInput) - 2) \o << "x" >>
                       ELSE nmInput
       /\ nmErrs = CallWrapped(nmWrapped, nmPath, nmCalls[1])
       /\ nmWrapped = "recorder" => nmErrs = <<>>
       /\ nmValue = nmInput

\* GenerateName hands "fox" to LongName for the input "foo-": no error, and
\* the input is still "foo-"
C18_Witness ==
    /\ nmFn = "GenerateName"
    /\ nmWrapped = "LongName"
    /\ nmInput = << "f", "o", "o", "-" >>
    /\ nmCalls = << << "f", "o", "x" >> >>
    /\ nmErrs = <<>>
    /\ nmValue = << "f", "o", "o", "-" >>

\* the positions at which a label of name starts: 1 and after every dot
LabelStarts(name) == {k \in 1..(Len(name) + 1) : IF k = 1 THEN TRUE ELSE name[k - 1] = "."}

\* the label that starts at k: up to the next dot or the end
LabelAt(name, k) ==
    LET ends == {j \in k..(Len(name) + 1) : IF j = Len(name) + 1 THEN TRUE ELSE name[j] = "."}
        end  == CHOOSE j \in ends : \A h \in ends : j <= h
    IN  SubSeq(name, k, end - 1)

\* a non-empty label of lowercase alphanumerics and dashes that starts and
\* ends with an alphanumeric
IsLabel(l) ==
    /\ Len(l) > 0
    /\ \A k \in 1..Len(l) : l[k] \in LowerAlnum \cup {"-"}
    /\ l[1] \in LowerAlnum
    /\ l[Len(l)] \in LowerAlnum

IsLongName(name) ==
    /\ Len(name) > 0
    /\ Len(name) <= 253
    /\ \A k \in LabelStarts(name) : IsLabel(LabelAt(name, k))

\* C19: LongName returns no error iff the name is non-empty, at most 253
\* bytes long and a dot-separated sequence of labels (so a single label of
\* 253 bytes is accepted and one of 254 rejected); every error it returns is
\* an Invalid error at the given path with origin "format=k8s-long-name".
C19_LongNameAccepts ==
    nmFn = "LongName" =>
       /\ (nmErrs = <<>>) <=> IsLongName(nmInput)
       /\ \A e \in 1..Len(nmErrs) :
             nmErrs[e] = InvalidWithOrigin(nmPath, "format=k8s-long-name")
       /\ nmInput = LongLabel(253) => nmErrs = <<>>
       /\ nmInput = LongLabel(254) => nmErrs # <<>>
       /\ nmInput = NotALabel => nmErrs # <<>>

\* a single label of 253 bytes is accepted
C19_Witness ==
    /\ nmFn = "LongName"
    /\ nmInput = LongLabel(253)
    /\ nmErrs = <<>>

\* "-this-is-not-a-label" is rejected
C19_WitnessRejected ==
    /\ nmFn = "LongName"
    /\ nmInput = NotALabel
    /\ nmErrs = << InvalidWithOrigin(nmPath, "format=k8s-long-name") >>

(***************************************************************************)
(* Properties of the generated validation code (SpecGen).                  *)
(***************************************************************************)
\* the k-th field of the object is unchanged: its new and old pointers are
\* identical (both nil included), or both are non-nil and point to == values
FieldUnchanged(k) ==
    LET fname == GenFields(gObj.t)[k]
        new   == FieldRef(gObj, fname)
        old   == SafeField(gOld, fname)
    IN  \/ new.addr = old.addr
        \/ (new # NilRef /\ old # NilRef /\ new.v.t # "float64" /\ new.v = old.v)
        \/ (new # NilRef /\ old # NilRef /\ new.v.t = "float64"
               /\ new.v.f # "NaN" /\ new.v.f = old.v.f)

\* the tag validators of the k-th field ran n times
FieldRuns(k, n) ==
    Cardinality({c \in 1..Len(gCalls) : gCalls[c] = GenFields(gObj.t)[k]}) = n

\* no error is reported at the k-th field
FieldHasNoError(k) ==
    \A e \in 1..Len(gErrs) : gErrs[e].field # Child(<<>>, GenFields(gObj.t)[k])

\* C20: on Update the tag validators of an unchanged field do not run and
\* no error is reported for it, so an object validated against the same or
\* an equal old object has no error even when it is invalid; on Create, or
\* when the field differs from the old one, the tag validators run.
C20_UnchangedFieldsNotValidated ==
    gPc = "done" =>
       /\ \A k \in 1..Len(GenFields(gObj.t)) :
             IF gOp = "Update" /\ FieldUnchanged(k)
             THEN FieldRuns(k, 0) /\ FieldHasNoError(k)
             ELSE FieldRuns(k, 1)
       /\ (gOp = "Update" /\ gOld.addr = gObj.addr) => gErrs = <<>>
       /\ (gOp = "Update" /\ \A k \in 1..Len(GenFields(gObj.t)) : FieldUnchanged(k))
             => gErrs = <<>>

\* an Update of an invalid object (Max0Field holds a non-empty string)
\* against an equal old object at another address, the pointer field nil in
\* both: no validator runs, no error
C20_Witness ==
    /\ gPc = "done"
    /\ gOp = "Update"
    /\ gObj.t = "Struct"
    /\ gOld # NilObj
    /\ gOld.addr # gObj.addr
    /\ gObj.max0Field = StringV("a")
    /\ gOld.max0Field = StringV("a")
    /\ gObj.max0PtrField = NilField
    /\ gOld.max0PtrField = NilField
    /\ gCalls = <<>>
    /\ gErrs = <<>>

\* the same object on Create: the validators run and report the error
C20_WitnessCreate ==
    /\ gPc = "done"
    /\ gOp = "Create"
    /\ gObj.t = "Struct"
    /\ gOld # NilObj
    /\ gObj.max0Field = StringV("a")
    /\ gOld.max0Field = StringV("a")
    /\ gCalls = << "max0Field", "max0PtrField" >>
    /\ gErrs = << Invalid(Child(<<>>, "max0Field"), "too long") >>

(***************************************************************************)
(* SpecEqOneOf: one call of EqOneOf[T] on any path, value pointer, old     *)
(* value pointer and allowed list.                                         *)
(***************************************************************************)
InitEqOneOf == EachIdle /\ ImmIdle /\ FieldIdle /\ UniqueIdle /\ ListMapIdle /\ NameIdle /\ GenIdle /\ EqIdle /\ ElemIdle /\ TypedIdle /\ MatchIdle /\ AddIdle /\ IterIdle

\* the call of EqOneOf[T]
EqOneOfReturns(T) ==
    \E path \in FldPaths, value \in EqValues(T) \cup {NilT}, old \in EqValues(T) \cup {NilT} :
       \E allowed \in SeqsUpTo(EqValues(T), MaxLen) :
          /\ eqT' = T
          /\ eqPath' = path
          /\ eqValue' = value
          /\ eqOld' = old
          /\ eqAllowed' = allowed
          /\ eqErrs' = EqOneOf(path, value, allowed)

EqOneOfIntCall ==
    /\ eqT = "none"
    /\ EqOneOfReturns("int")
    /\ UNCHANGED notEqVars

EqOneOfStringCall ==
    /\ eqT = "none"
    /\ EqOneOfReturns("string")
    /\ UNCHANGED notEqVars

EqOneOfFloatCall ==
    /\ eqT = "none"
    /\ EqOneOfReturns("float64")
    /\ UNCHANGED notEqVars

NextEqOneOf ==
    \/ EqOneOfIntCall
    \/ EqOneOfStringCall
    \/ EqOneOfFloatCall

SpecEqOneOf == InitEqOneOf /\ [][NextEqOneOf]_vars

(***************************************************************************)
(* Properties of SpecEqOneOf.                                              *)
(***************************************************************************)
\* the value is one of the allowed values (Go's == on T)
IsAllowed ==
    \E k \in 1..Len(eqAllowed) :
       IF eqValue.t = "float64"
       THEN eqValue.f # "NaN" /\ eqAllowed[k].f = eqValue.f
       ELSE eqAllowed[k] = eqValue

\* C21: EqOneOf returns no error when the value pointer is nil or the value
\* equals an element of the allowed list; otherwise it returns exactly one
\* NotSupported error at the field path whose allowed values are the
\* allowed list rendered as strings, in the same order.  The result does
\* not depend on the old value.
C21_EqOneOfVerdict ==
    eqT # "none" =>
       IF eqValue = NilT \/ IsAllowed
       THEN eqErrs = <<>>
       ELSE /\ Len(eqErrs) = 1
            /\ eqErrs[1].type = "FieldValueNotSupported"
            /\ eqErrs[1].field = eqPath
            /\ Len(eqErrs[1].validValues) = Len(eqAllowed)
            /\ \A k \in 1..Len(eqAllowed) :
                  eqErrs[1].validValues[k] = Sprintf_v(eqAllowed[k])

\* the int -1 is not one of [1, 0]: one error listing "1", "0", whatever
\* the old value
C21_Witness ==
    /\ eqT = "int"
    /\ eqValue = IntV(-1)
    /\ eqOld = IntV(1)
    /\ eqAllowed = << IntV(1), IntV(0) >>
    /\ Len(eqErrs) = 1
    /\ eqErrs[1].badValue = << "-", "1" >>
    /\ eqErrs[1].validValues = << << "1" >>, << "0" >> >>

\* the second element of the allowed list matches: no error
C21_WitnessAllowed ==
    /\ eqT = "string"
    /\ eqValue = EqStringV(<< "a" >>)
    /\ eqAllowed = << EqStringV(<< "1" >>), EqStringV(<< "a" >>) >>
    /\ eqErrs = <<>>

(***************************************************************************)
(* SpecElem: one call of ListMapElementByKey on any pair of lists, key     *)
(* name and key value.                                                     *)
(***************************************************************************)
InitElem == EachIdle /\ ImmIdle /\ FieldIdle /\ UniqueIdle /\ ListMapIdle /\ NameIdle /\ GenIdle /\ EqIdle /\ ElemIdle /\ TypedIdle /\ MatchIdle /\ AddIdle /\ IterIdle

\* the arguments of the call
ListMapElementByKeyArgs ==
    /\ ekPc = "idle"
    /\ ekOp' \in OpTypes
    /\ ekPath' \in FldPaths
    /\ ekNew' \in ElementLists
    /\ ekOld' \in ElementLists
    /\ ekKeyName' \in KeyNames
    /\ ekKeyValue' \in KeyValues
    /\ ekValidator' \in Validators
    /\ ekPc' = "done"

\* a call that finds the element in neither list: return the nil errs
ListMapElementByKeyNotFound ==
    /\ ListMapElementByKeyArgs
    /\ foundElementPtr(ekNew', ekKeyName', ekKeyValue') = 0
    /\ foundElementPtr(ekOld', ekKeyName', ekKeyValue') = 0
    /\ ekCalls' = <<>>
    /\ ekErrs' = <<>>
    /\ UNCHANGED notElemVars

\* a call that finds the element: append elementValidator(ctx, op,
\* fldPath.Key(keyValue), foundNewElementPtr, foundOldElementPtr)
ListMapElementByKeyValidate ==
    /\ ListMapElementByKeyArgs
    /\ LET foundNew == foundElementPtr(ekNew', ekKeyName', ekKeyValue')
           foundOld == foundElementPtr(ekOld', ekKeyName', ekKeyValue')
           elementPath == Key(ekPath', ekKeyValue')
       IN  /\ foundNew # 0 \/ foundOld # 0
           /\ ekCalls' = << [path |-> elementPath, newVal |-> foundNew, oldVal |-> foundOld] >>
           /\ ekErrs' = Validate(ekValidator', elementPath, foundNew, foundOld)
    /\ UNCHANGED notElemVars

NextElem ==
    \/ ListMapElementByKeyNotFound
    \/ ListMapElementByKeyValidate

SpecElem == InitElem /\ [][NextElem]_vars

(***************************************************************************)
(* Properties of SpecElem.                                                 *)
(***************************************************************************)
\* the positions of the elements of a list whose string-typed field of
\* JSON name ekKeyName holds ekKeyValue
StringKeyPositions(list) ==
    {k \in 1..Len(list) :
        \E f \in 1..Len(ElementFields) :
           /\ ElementFields[f].exported
           /\ ElementFields[f].nameInTag = ekKeyName
           /\ ElementFields[f].nameInTag \notin {"", "-"}
           /\ ElementFields[f].kind = "string"
           /\ list[k][ElementFields[f].go] = ekKeyValue}

FirstStringKey(list) ==
    IF StringKeyPositions(list) = {} THEN 0
    ELSE CHOOSE k \in StringKeyPositions(list) : \A h \in StringKeyPositions(list) : k <= h

\* C22: the element validator is called exactly once if an element whose
\* JSON-named key field has the string value keyValue exists in newList or
\* in oldList, with pointers to the first such element of each list (nil
\* where there is none) and the path fldPath.Key(keyValue); if neither
\* list has such an element, or the key name names no string-typed field,
\* the validator is not called and no error is returned.
C22_ElementByKeyOnce ==
    ekPc = "done" =>
       IF FirstStringKey(ekNew) = 0 /\ FirstStringKey(ekOld) = 0
       THEN ekCalls = <<>> /\ ekErrs = <<>>
       ELSE ekCalls = << [path |-> Key(ekPath, ekKeyValue),
                          newVal |-> FirstStringKey(ekNew),
                          oldVal |-> FirstStringKey(ekOld)] >>

\* the same for a key name that names a string-typed field or no field
C22_StringKeyOnce ==
    (ekPc = "done" /\ ekKeyName # "count") =>
       IF FirstStringKey(ekNew) = 0 /\ FirstStringKey(ekOld) = 0
       THEN ekCalls = <<>> /\ ekErrs = <<>>
       ELSE /\ ekCalls = << [path |-> Key(ekPath, ekKeyValue),
                             newVal |-> FirstStringKey(ekNew),
                             oldVal |-> FirstStringKey(ekOld)] >>
            /\ ekErrs = Validate(ekValidator, Key(ekPath, ekKeyValue),
                                 FirstStringKey(ekNew), FirstStringKey(ekOld))

\* two elements of type "a" in the new list, the second element of the old
\* list of type "a": one call with the first of each
C22_WitnessFirst ==
    /\ ekPc = "done"
    /\ ekKeyName = "type"
    /\ ekKeyValue = "a"
    /\ Len(ekNew) = 2 /\ ekNew[1].Type = "a" /\ ekNew[2].Type = "a"
    /\ Len(ekOld) = 2 /\ ekOld[1].Type = "b" /\ ekOld[2].Type = "a"
    /\ ekCalls = << [path |-> Key(ekPath, "a"), newVal |-> 1, oldVal |-> 2] >>

\* the int field Count = 97 selected by the key value "a"
C22_WitnessIntKey ==
    /\ ekPc = "done"
    /\ ekKeyName = "count"
    /\ ekKeyValue = "a"
    /\ Len(ekNew) = 1 /\ ekNew[1].Count = 97
    /\ ekOld = <<>>
    /\ Len(ekCalls) = 1

(***************************************************************************)
(* SpecTyped: one call of TypedToVal on any typed value, or one comparison *)
(* of two wrapped values of one type, made in both directions.             *)
(***************************************************************************)
InitTyped == EachIdle /\ ImmIdle /\ FieldIdle /\ UniqueIdle /\ ListMapIdle /\ NameIdle /\ GenIdle /\ EqIdle /\ ElemIdle /\ TypedIdle /\ MatchIdle /\ AddIdle /\ IterIdle

\* TypedToVal(val)
TypedToValCall ==
    /\ tvFn = "none"
    /\ \E T \in TypedTypes :
          \E val \in TypedValues(T) \cup {NilInterface} :
             /\ tvFn' = "TypedToVal"
             /\ tvType' = T
             /\ tvA' = val
             /\ tvOut' = TypedToVal(val)
    /\ UNCHANGED << tvB, tvOrd, tvSwapped >>
    /\ UNCHANGED notTypedVars

\* TypedToVal(a).Equal(TypedToVal(b)) and TypedToVal(b).Equal(TypedToVal(a))
EqualCall ==
    /\ tvFn = "none"
    /\ \E T \in TypedTypes, ord \in KeyOrders :
          \E a \in TypedValues(T), b \in TypedValues(T) :
             /\ tvFn' = "Equal"
             /\ tvType' = T
             /\ tvA' = a
             /\ tvB' = b
             /\ tvOrd' = ord
             /\ tvOut' = Equal(TypedToVal(a), TypedToVal(b), ord)
             /\ tvSwapped' = Equal(TypedToVal(b), TypedToVal(a), ord)
    /\ UNCHANGED notTypedVars

NextTyped ==
    \/ TypedToValCall
    \/ EqualCall

SpecTyped == InitTyped /\ [][NextTyped]_vars

(***************************************************************************)
(* Properties of SpecTyped.                                                *)
(***************************************************************************)
\* following the pointers of a value ends at a nil pointer
RECURSIVE EndsAtNil(_)
EndsAtNil(v) == v.k = "ptr" /\ (v.nil \/ EndsAtNil(v.elem))

\* C23: TypedToVal returns the null value for a nil interface, for a nil
\* pointer at any depth and for a nil byte slice, and TypedToVal(&v) is
\* TypedToVal(v) for a non-nil pointer.
C23_PointersTransparent ==
    tvFn = "TypedToVal" =>
       /\ tvA = NilInterface => tvOut = NullValue
       /\ (tvA # NilInterface /\ EndsAtNil(tvA)) => tvOut = NullValue
       /\ tvA = TBytes(TRUE, <<>>) => tvOut = NullValue
       /\ (tvA.k = "ptr" /\ ~tvA.nil) => tvOut = TypedToVal(tvA.elem)

\* a pointer to a nil pointer to a struct
C23_Witness ==
    /\ tvFn = "TypedToVal"
    /\ tvA = TPtr(TNilPtr)
    /\ tvOut = NullValue

\* a pointer to a pointer to a struct: the wrapped struct
C23_WitnessDeref ==
    /\ tvFn = "TypedToVal"
    /\ tvA = TPtr(TPtr(TStruct("a", TBytes(TRUE, <<>>))))
    /\ tvOut = StructVal(TStruct("a", TBytes(TRUE, <<>>)))

\* C24: for two typed values a and b of one type, TypedToVal(a).Equal(
\* TypedToVal(b)) is true if and only if a and b are semantically
\* deep-equal, and so is the comparison with a and b swapped.
C24_EqualIsDeepEqual ==
    tvFn = "Equal" =>
       /\ (tvOut = "true") <=> SemanticDeepEqual(tvA, tvB)
       /\ (tvSwapped = "true") <=> (tvOut = "true")

\* the same for values that hold no []byte outside a struct and no pointer
\* to a pointer
RECURSIVE HoldsBytes(_)
HoldsBytes(v) ==
    CASE v.k = "bytes" -> TRUE
      [] v.k = "slice" -> \E n \in 1..Len(v.elems) : HoldsBytes(v.elems[n])
      [] v.k = "map"   -> \E kv \in v.kv : HoldsBytes(kv[2])
      [] v.k = "ptr"   -> ~v.nil /\ HoldsBytes(v.elem)
      [] OTHER         -> FALSE

C24_EqualWithoutBytes ==
    (tvFn = "Equal" /\ tvType # "**Struct" /\ ~HoldsBytes(tvA) /\ ~HoldsBytes(tvB)) =>
       /\ (tvOut = "true") <=> SemanticDeepEqual(tvA, tvB)
       /\ (tvSwapped = "true") <=> (tvOut = "true")

\* [][]byte{nil} and [][]byte{{}}: deep-equal, yet Equal is false
C24_WitnessBytes ==
    /\ tvFn = "Equal"
    /\ tvA = TSlice(FALSE, << TBytes(TRUE, <<>>) >>)
    /\ tvB = TSlice(FALSE, << TBytes(FALSE, <<>>) >>)
    /\ SemanticDeepEqual(tvA, tvB)
    /\ tvOut = "false"

\* a pointer to a nil pointer and a nil pointer: not deep-equal, yet Equal
\* is true
C24_WitnessPointers ==
    /\ tvFn = "Equal"
    /\ tvA = TPtr(TNilPtr)
    /\ tvB = TNilPtr
    /\ ~SemanticDeepEqual(tvA, tvB)
    /\ tvOut = "true"

\* a nil and a non-nil *Struct in a list: false one way, an error the other
C24_WitnessError ==
    /\ tvFn = "Equal"
    /\ tvOut = "false"
    /\ tvSwapped = "err"

(***************************************************************************)
(* Further properties of EachSliceVal (SpecEach).                          *)
(***************************************************************************)
\* the errors the validator returned over a sequence of its invocations
RECURSIVE ErrsOfCalls(_)
ErrsOfCalls(cs) ==
    IF cs = <<>> THEN <<>>
    ELSE LET c == cs[Len(cs)]
         IN  ErrsOfCalls(SubSeq(cs, 1, Len(cs) - 1))
                \o Validate(validator, c.path, c.newVal, c.oldVal)

\* no new element has a matching old element (so with an empty new or old
\* slice, or with no match function)
NothingMatches == \A k \in 1..Len(newSlice) : MatchesOf(k) = {}

\* C25 as stated: when no old element matches a new element, or the inputs
\* are empty, EachSliceVal returns zero errors and makes zero validator
\* calls.
C25_NoMatchNoCalls ==
    (pc = "done" /\ NothingMatches) => (calls = <<>> /\ errs = <<>>)

\* C25, amended: with an empty new slice EachSliceVal makes no validator
\* call and returns no error; a new element that no old element matches is
\* validated exactly once, with a nil oldVal, at its index, and when no
\* element has a match the errors returned are those of these calls.
C25_NoMatchValidatesWithNilOld ==
    pc = "done" =>
       /\ newSlice = <<>> => (calls = <<>> /\ errs = <<>>)
       /\ \A k \in 1..Len(newSlice) :
             MatchesOf(k) = {} =>
                /\ Cardinality({n \in 1..Len(calls) : calls[n].path = PathOf(k)}) = 1
                /\ \E n \in 1..Len(calls) :
                      calls[n] = [path |-> PathOf(k), newVal |-> newSlice[k], oldVal |-> 0]
       /\ NothingMatches =>
             /\ Len(calls) = Len(newSlice)
             /\ errs = ErrsOfCalls(calls)

\* an Update of two elements with a match function and two old elements of
\* another key: two calls with a nil oldVal, two errors
C25_Witness ==
    /\ pc = "done"
    /\ opType = "Update"
    /\ match = "KeyEqual"
    /\ validator = "ExpectNoCalls"
    /\ Len(newSlice) = 2
    /\ Len(oldSlice) = 2
    /\ NothingMatches
    /\ Len(calls) = 2
    /\ calls[1].oldVal = 0
    /\ calls[2].oldVal = 0
    /\ Len(errs) = 2

\* an empty new slice against a non-empty old slice: no call, no error
C25_WitnessEmpty ==
    /\ pc = "done"
    /\ newSlice = <<>>
    /\ Len(oldSlice) = 2
    /\ calls = <<>>
    /\ errs = <<>>

\* the new elements the loop has passed that were not skipped
ValidatedSoFar ==
    {k \in 1..(i - 1) : ~(opType = "Update" /\ UnchangedFromOld(k))}

\* the n-th of them in increasing order
NthValidated(n) ==
    CHOOSE k \in ValidatedSoFar : Cardinality({m \in ValidatedSoFar : m < k}) = n - 1

\* C26: the old element used for new[i] is the matching one of lowest
\* index; the equivalence test is evaluated against it only and it is the
\* oldVal of the validator call; the elements are processed, and their
\* errors appended, in increasing index order of the new slice.
C26_FirstMatchWins ==
    pc \in {"loop", "done"} =>
       /\ Len(calls) = Cardinality(ValidatedSoFar)
       /\ \A n \in 1..Len(calls) :
             LET k == NthValidated(n)
             IN  calls[n] = [path   |-> PathOf(k),
                             newVal |-> newSlice[k],
                             oldVal |-> IF MatchesOf(k) = {} THEN 0 ELSE FirstMatchOf(k)]
       /\ errs = ErrsOfCalls(calls)

\* both old elements have the key of the first new element and only the
\* second equals it: the first is used, so the element is validated with
\* it as oldVal; the second new element follows, in order
C26_Witness ==
    /\ pc = "done"
    /\ opType = "Update"
    /\ match = "KeyEqual"
    /\ equiv = "DirectEqual"
    /\ validator = "ExpectNoCalls"
    /\ Len(newSlice) = 2
    /\ Len(oldSlice) = 2
    /\ MatchesOf(1) = {1, 2}
    /\ oldSlice[1] # newSlice[1]
    /\ oldSlice[2] = newSlice[1]
    /\ MatchesOf(2) = {}
    /\ Len(calls) = 2
    /\ calls[1].oldVal = 1
    /\ errs = << Invalid(PathOf(1), "expected no calls"), Invalid(PathOf(2), "expected no calls") >>

(***************************************************************************)
(* Further properties of the mask functions (SpecName).                    *)
(***************************************************************************)
\* the input of a mask function is longer than one byte and ends in a dash
MaskApplies == Len(nmInput) > 1 /\ nmInput[Len(nmInput)] = "-"

InitMatch == EachIdle /\ ImmIdle /\ FieldIdle /\ UniqueIdle /\ ListMapIdle /\ NameIdle /\ GenIdle /\ EqIdle /\ ElemIdle /\ TypedIdle /\ MatchIdle /\ AddIdle /\ IterIdle

GetValidationsReturns(tag, pairs, n, r) ==
    /\ mfTag' = tag
    /\ mfPairs' = pairs
    /\ mfPayload' = n
    /\ mfErr' = r.err
    /\ mfFunctions' = IF r.err.err THEN <<>> ELSE Functions(tag, r.fn, n)

\* listMapItemTagValidator.GetValidations
ListMapItemGetValidations ==
    /\ mfTag = "none"
    /\ \E pairs \in MatcherPairs, n \in 0..MaxPayloadFns :
          GetValidationsReturns("listMapItem", pairs, n,
                                listMapItem_createMatchFn(ItemMembers, pairs))
    /\ UNCHANGED notMatchVars

\* itemTagValidator.GetValidations
ItemGetValidations ==
    /\ mfTag = "none"
    /\ \E pairs \in MatcherPairs, n \in 0..MaxPayloadFns :
          GetValidationsReturns("item", pairs, n,
                                item_createMatchFn(ItemMembers, pairs))
    /\ UNCHANGED notMatchVars

NextMatch ==
    \/ ListMapItemGetValidations
    \/ ItemGetValidations

SpecMatch == InitMatch /\ [][NextMatch]_vars

\* the key field of a pair is a string or an alias of string
StringTyped(jsonKey) ==
    \E p \in DOMAIN ItemMembers :
       /\ ItemMembers[p].JSON = jsonKey
       /\ ItemMembers[p].Type \in {TypeString, AliasOf("ConditionStatus", TypeString)}

AllKeysStringTyped == \A p \in 1..Len(mfPairs) : StringTyped(mfPairs[p][1])

\* C28: for both tags, building the match function fails, and no validation
\* function is emitted, whenever a key field named in the matcher pairs is
\* not a string or an alias of string; it succeeds, with one function per
\* payload function, only when every key field is string-typed.
C28_KeyFieldsMustBeStrings ==
    mfTag # "none" =>
       /\ mfErr.err <=> ~AllKeysStringTyped
       /\ mfErr.err => mfFunctions = <<>>
       /\ ~mfErr.err => Len(mfFunctions) = mfPayload

\* C28 holds of the +k8s:item tag
C28_ItemKeysMustBeStrings ==
    mfTag = "item" =>
       /\ mfErr.err <=> ~AllKeysStringTyped
       /\ mfErr.err => mfFunctions = <<>>
       /\ ~mfErr.err => Len(mfFunctions) = mfPayload

\* C28 under +k8s:listMapItem for key fields that are not built-in types
C28_ListMapItemRejectsNonBuiltin ==
    (mfTag = "listMapItem"
       /\ \E p \in 1..Len(mfPairs) : mfPairs[p][1] \in {"ref", "inner"})
    => mfErr.err /\ mfFunctions = <<>>

\* +k8s:listMapItem has emitted a function comparing an int field to a string
C28_WitnessIntKey ==
    /\ mfTag = "listMapItem"
    /\ mfPairs = << <<"count", "1">> >>
    /\ ~mfErr.err
    /\ Len(mfFunctions) = 1
    /\ mfFunctions[1].MatchFn.Body = << [field |-> "Count", value |-> "1"] >>

\* +k8s:item has rejected the same key
C28_WitnessItemRejects ==
    /\ mfTag = "item"
    /\ mfPairs = << <<"count", "1">> >>
    /\ mfErr = [err |-> TRUE, tag |-> "item", field |-> "Count", got |-> "int"]
    /\ mfPayload > 0
    /\ mfFunctions = <<>>

(***************************************************************************)
(* SpecAdd: a typed slice is wrapped by TypedToVal, then Add is called on  *)
(* the wrapper up to MaxAdds times.                                        *)
(***************************************************************************)
InitAdd == EachIdle /\ ImmIdle /\ FieldIdle /\ UniqueIdle /\ ListMapIdle /\ NameIdle /\ GenIdle /\ EqIdle /\ ElemIdle /\ TypedIdle /\ MatchIdle /\ AddIdle /\ IterIdle

\* TypedToVal(s) for a slice s of len(s) <= MaxAddLen and up to MaxSpare
\* elements of spare capacity
WrapSlice ==
    /\ adKind = "none"
    /\ \E kind \in AddKinds, spare \in 0..MaxSpare :
       \E elems \in SeqsUpTo(AddAtoms(kind), MaxAddLen) :
          /\ adKind' = kind
          /\ adHeap' = << elems \o [k \in 1..spare |-> ZeroAtom(kind)] >>
          /\ adRecv' = Header(1, Len(elems))
          /\ adRecv0' = elems
    /\ UNCHANGED << adOthers, adResults, adReturned, adPanicked >>
    /\ UNCHANGED notAddVars

AddEnabled ==
    /\ adKind # "none"
    /\ ~adPanicked
    /\ Len(adResults) < MaxAdds

\* t.Add(other) for a list other, returning the new sliceVal
AddReturns ==
    /\ AddEnabled
    /\ \E other \in SeqsUpTo(OtherAtoms(adKind), MaxAddLen), grow \in 0..MaxSpare :
          LET r == AddLoop(adHeap, adRecv, adKind, other, 1, grow)
          IN  /\ ~r.panic
              /\ adHeap' = r.heap
              /\ adOthers' = Append(adOthers, Lister(other))
              /\ adResults' = Append(adResults, SliceValOf(r.hdr))
              /\ adReturned' = Append(adReturned, ElementsOf(r.heap, r.hdr))
    /\ UNCHANGED << adKind, adRecv, adRecv0, adPanicked >>
    /\ UNCHANGED notAddVars

\* t.Add(other) for a list other, reflect.Append panicking
AddPanics ==
    /\ AddEnabled
    /\ \E other \in SeqsUpTo(OtherAtoms(adKind), MaxAddLen), grow \in 0..MaxSpare :
          LET r == AddLoop(adHeap, adRecv, adKind, other, 1, grow)
          IN  /\ r.panic
              /\ adHeap' = r.heap
              /\ adOthers' = Append(adOthers, Lister(other))
    /\ adPanicked' = TRUE
    /\ UNCHANGED << adKind, adRecv, adRecv0, adResults, adReturned >>
    /\ UNCHANGED notAddVars

\* t.Add(other) for an other that is no list
AddNonLister ==
    /\ AddEnabled
    /\ adOthers' = Append(adOthers, NonLister)
    /\ adResults' = Append(adResults, NoSuchOverload)
    /\ adReturned' = Append(adReturned, <<>>)
    /\ UNCHANGED << adKind, adHeap, adRecv, adRecv0, adPanicked >>
    /\ UNCHANGED notAddVars

NextAdd ==
    \/ WrapSlice
    \/ AddReturns
    \/ AddPanics
    \/ AddNonLister

SpecAdd == InitAdd /\ [][NextAdd]_vars

\* the Add calls that were given a list
ListAdds == { n \in 1..Len(adResults) : adOthers[n].lister }

\* C29: Add returns the receiver's elements followed by other's, and after
\* any sequence of Add calls on one receiver neither the receiver (and with
\* it the typed slice it wraps) nor any list returned earlier has changed
\* its elements.
C29_AddIsSideEffectFree ==
    /\ ~adPanicked
    /\ ElementsOf(adHeap, adRecv) = adRecv0
    /\ \A n \in ListAdds :
          /\ adReturned[n] = adRecv0 \o adOthers[n].elems
          /\ ElementsOf(adHeap, adResults[n].hdr) = adReturned[n]

\* C29 without the lists returned earlier, for the slices Add can extend
C29_ReceiverUnchanged ==
    /\ ElementsOf(adHeap, adRecv) = adRecv0
    /\ adKind # "int" => ~adPanicked
    /\ \A n \in ListAdds : adReturned[n] = adRecv0 \o adOthers[n].elems

\* C29 in full when no call finds spare capacity in the receiver
C29_NoSpareNoChange ==
    (adKind \in {"string", "int64"} /\ Cap(adHeap, adRecv) = adRecv.len)
    => \A n \in ListAdds : ElementsOf(adHeap, adResults[n].hdr) = adReturned[n]

\* the list of the first Add has changed under the second
C29_WitnessAliased ==
    /\ adKind = "string"
    /\ adRecv0 = <<"a">>
    /\ adOthers = << Lister(<<"x">>), Lister(<<"y">>) >>
    /\ adReturned[1] = <<"a", "x">>
    /\ ElementsOf(adHeap, adResults[1].hdr) = <<"a", "y">>

\* Add on a []int has panicked
C29_WitnessPanic ==
    /\ adKind = "int"
    /\ adPanicked
    /\ adRecv0 = <<1>>
    /\ adOthers = << Lister(<<8>>) >>

(***************************************************************************)
(* SpecIter: an iterator is taken from a sliceVal or a mapVal, then        *)
(* HasNext and Next are called on it in any order, Next up to MaxNexts     *)
(* times.                                                                  *)
(***************************************************************************)
InitIter == EachIdle /\ ImmIdle /\ FieldIdle /\ UniqueIdle /\ ListMapIdle /\ NameIdle /\ GenIdle /\ EqIdle /\ ElemIdle /\ TypedIdle /\ MatchIdle /\ AddIdle /\ IterIdle

\* sliceVal.Iterator
SliceIterator ==
    /\ itKind = "none"
    /\ itKind' = "slice"
    /\ itElems' \in SliceSnapshots
    /\ itIdx' = 0
    /\ UNCHANGED << itHasNext, itCalls >>
    /\ UNCHANGED notIterVars

\* mapVal.Iterator
MapIterator ==
    /\ itKind = "none"
    /\ itKind' = "map"
    /\ itElems' \in KeySnapshots
    /\ itIdx' = 0
    /\ UNCHANGED << itHasNext, itCalls >>
    /\ UNCHANGED notIterVars

\* sliceIter.HasNext and mapIter.HasNext
HasNext ==
    /\ itKind # "none"
    /\ itHasNext' = iterHasNext(itElems, itIdx)
    /\ UNCHANGED << itKind, itElems, itIdx, itCalls >>
    /\ UNCHANGED notIterVars

NextReturns(r) ==
    /\ itIdx' = r.idx
    /\ itCalls' = Append(itCalls, [before |-> itIdx, after |-> r.idx, result |-> r.result])
    /\ itHasNext' = "unasked"
    /\ UNCHANGED << itKind, itElems >>

\* sliceIter.Next
SliceIterNext ==
    /\ itKind = "slice"
    /\ Len(itCalls) < MaxNexts
    /\ NextReturns(sliceIterNext(itElems, itIdx))
    /\ UNCHANGED notIterVars

\* mapIter.Next
MapIterNext ==
    /\ itKind = "map"
    /\ Len(itCalls) < MaxNexts
    /\ NextReturns(mapIterNext(itElems, itIdx))
    /\ UNCHANGED notIterVars

NextIter ==
    \/ SliceIterator
    \/ MapIterator
    \/ HasNext
    \/ SliceIterNext
    \/ MapIterNext

SpecIter == InitIter /\ [][NextIter]_vars

\* the items Next has returned so far
ItemsReturned == { n \in 1..Len(itCalls) : itCalls[n].result.c = "string" }

\* HasNext is true exactly while fewer than Size() items have been returned
HasNextWhileItemsLeft ==
    itHasNext # "unasked" =>
       (itHasNext = "true" <=> Cardinality(ItemsReturned) < Len(itElems))

\* a Next call made when HasNext was false returned an error value, without
\* a panic and without moving the iterator
ExhaustedNextIsError(n) ==
    itCalls[n].before >= Len(itElems) =>
       /\ itCalls[n].result.c = "err"
       /\ itCalls[n].after = itCalls[n].before

\* C30: for the iterators of sliceVal and of mapVal, HasNext is true exactly
\* while fewer than Size() items have been returned, and Next called when
\* HasNext is false returns an error value, without panicking and without
\* changing the iterator's position.
C30_ExhaustionIsAnError ==
    /\ HasNextWhileItemsLeft
    /\ \A n \in 1..Len(itCalls) : ExhaustedNextIsError(n)

\* C30 holds of the iterator of a sliceVal
C30_SliceExhaustionIsAnError ==
    itKind = "slice" =>
       /\ HasNextWhileItemsLeft
       /\ \A n \in 1..Len(itCalls) : ExhaustedNextIsError(n)

\* of the iterator of a mapVal, the HasNext half of C30 holds, and an
\* exhausted Next leaves the position alone
C30_MapHasNext ==
    itKind = "map" =>
       /\ HasNextWhileItemsLeft
       /\ \A n \in 1..Len(itCalls) :
             itCalls[n].before >= Len(itElems) => itCalls[n].after = itCalls[n].before

\* Next of an exhausted mapIter has panicked, after HasNext said false
C30_WitnessMapPanic ==
    /\ itKind = "map"
    /\ itElems = <<"k1">>
    /\ Len(itCalls) = 2
    /\ itCalls[1].result = [c |-> "string", v |-> "k1"]
    /\ itCalls[2].result = IndexOutOfRange

\* Next of an exhausted sliceIter has returned the error
C30_WitnessSliceError ==
    /\ itKind = "slice"
    /\ itElems = <<"a">>
    /\ Len(itCalls) = 2
    /\ itCalls[2] = [before |-> 1, after |-> 1, result |-> IteratorExhausted]

=============================================================================
